---- MODULE Spec2Model ----
(***************************************************************************)
(* A model of seven parts of noodles:                                       *)
(*   - the async BGZF writer (noodles-bgzf/src/async/writer.rs),           *)
(*   - the BAM record writers (noodles-bam/src/writer.rs and               *)
(*     noodles-bam/src/writer/record.rs),                                   *)
(*   - the CSI reference sequence query                                     *)
(*     (noodles-csi/src/index/reference_sequence.rs),                       *)
(*   - the SAM header read group (noodles-sam/src/header/read_group.rs),   *)
(*   - the VCF header INFO record (noodles-vcf/src/header/info.rs),        *)
(*   - the CRAM tag encoding map builder (noodles-cram/src/                *)
(*     data_container/compression_header/tag_encoding_map/builder.rs),     *)
(*   - the CRAM feature resolver and data container                        *)
(*     (noodles-cram/src/record/resolve.rs, src/data_container.rs).        *)
(* Each part has its own specification over its own variables; the         *)
(* variables of the other parts stay at their initial value.               *)
(***************************************************************************)
EXTENDS Integers, Sequences, FiniteSets, TLC

VARIABLES
    \* ---- CSI reference sequence (SpecCsi)
    csiPc,        \* "ready" once the reference sequence is constructed, "done" after a call
    refBins,      \* ReferenceSequence.bins: the ids of the stored bins, in stored order
    csiCall,      \* the arguments of the last call
    csiResult,    \* what the last call returned
    \* ---- BAM record writers (SpecBam)
    bamPc,        \* "ready" before the call, "done" after it
    bamCall,      \* the function called and its arguments
    bamResult,    \* [err, out]: the error returned ("" for Ok) and the fields written
    \* ---- async BGZF writer (Spec)
    buf,          \* Writer.buf: the uncompressed bytes not yet handed to the sink
    eof_buf,      \* Writer.eof_buf: the bytes of the EOF marker not yet written
    sink,         \* Writer.sink: the deflate sink's queue, workers and reorder buffer
    inner,        \* what the underlying writer holds, in the order written
    last,         \* the last call on the writer and what it returned
    accepted,     \* history: the bytes poll_write reported as accepted, in call order
    sent,         \* history: the payloads handed to sink.start_send, in hand-off order
    shut,         \* history: which poll_shutdown calls there have been
    \* ---- SAM header read group (SpecReadGroup)
    readGroup,    \* the ReadGroup the calls act on, NoReadGroup before the first one is made
    rgLast,       \* the last call on ReadGroup and what it returned
    \* ---- VCF header INFO record (SpecInfo)
    infoPc,       \* "ready" before the call, "done" after it
    infoCall,     \* the record given to Info::try_from
    infoResult,   \* what Info::try_from returned
    \* ---- CRAM tag encoding map builder (SpecTagEncodingMap)
    builderKeys,  \* Builder.keys: the tag keys seen
    updated,      \* history: the records given to update, in call order
    built,        \* what build returned, NotBuilt before it is called
    \* ---- CRAM feature resolver and data container (SpecCram)
    cramPc,       \* "ready" before the call, "done" after it
    cramCall,     \* the function called and its arguments
    cramResult    \* what the call returned

csiVars == <<csiPc, refBins, csiCall, csiResult>>

bamVars == <<bamPc, bamCall, bamResult>>

bgzfVars == <<buf, eof_buf, sink, inner, last, accepted, sent, shut>>

rgVars == <<readGroup, rgLast>>

infoVars == <<infoPc, infoCall, infoResult>>

builderVars == <<builderKeys, updated, built>>

cramVars == <<cramPc, cramCall, cramResult>>

vars == <<csiPc, refBins, csiCall, csiResult, bamPc, bamCall, bamResult,
          buf, eof_buf, sink, inner, last, accepted, sent, shut,
          readGroup, rgLast, infoPc, infoCall, infoResult,
          builderKeys, updated, built, cramPc, cramCall, cramResult>>

----------------------------------------------------------------------------
(* Integer helpers *)

\* x >> k on a signed integer: an arithmetic shift, rounding towards minus infinity
Shr(x, k) == x \div (2 ^ k)

\* the elements of a sequence
Range(s) == {s[i] : i \in 1..Len(s)}

----------------------------------------------------------------------------
(* noodles-csi: index/reference_sequence.rs *)

MIN_POSITION == 1

max_position(min_shift, depth) == (2 ^ (min_shift + 3 * depth)) - 1

\* Bin::max_id(depth): the number of bins of a depth-level binning scheme
\* (index/reference_sequence/bin.rs; 37449 for depth 5, the metadata
\* pseudo-bin being max_id + 1 = 37450)
Bin_max_id(depth) == ((8 ^ (depth + 1)) - 1) \div 7

\* A BitVec is modelled by the runs of bits set in it: a sequence of <<b, e>>,
\* one per `for i in b..=e { bins.set(i, true) }`.
BitSet(ranges, i) == \E k \in 1..Len(ranges) : ranges[k][1] <= i /\ i <= ranges[k][2]

\* the indices of the bits set
Bits(ranges) == UNION {ranges[k][1]..ranges[k][2] : k \in 1..Len(ranges)}

\* reg2bins's while loop, from level l on.  bins is [panic, ranges]: the bits
\* set so far, and whether BitVec::set was called with an index out of
\* 0..len-1 (it panics).
RECURSIVE reg2bins_loop(_, _, _, _, _, _, _, _)
reg2bins_loop(l, t, s, beg, end, depth, len, bins) ==
    IF l > depth THEN bins
    ELSE LET b == t + Shr(beg, s)
             e == t + Shr(end, s)
             oob == b <= e /\ (b < 0 \/ e >= len)
         IN  IF oob THEN [panic |-> TRUE, ranges |-> bins.ranges]
             ELSE reg2bins_loop(l + 1, t + 2 ^ (l * 3), s - 3, beg, end, depth, len,
                                [panic |-> FALSE, ranges |-> Append(bins.ranges, <<b, e>>)])

\* reg2bins without its `end -= 1`: the interval taken as closed
reg2bins_closed_end(beg, end, min_shift, depth, len) ==
    reg2bins_loop(0, 0, min_shift + depth * 3, beg, end, depth, len,
                  [panic |-> FALSE, ranges |-> <<>>])

\* reg2bins(beg, end, min_shift, depth, bins) on a cleared bit vector of len bits
reg2bins(beg, end, min_shift, depth, len) ==
    reg2bins_loop(0, 0, min_shift + depth * 3, beg, end - 1, depth, len,
                  [panic |-> FALSE, ranges |-> <<>>])

\* the filter of query letting every stored bin through
query_bins_unfiltered(bins, region_bins) == bins

\* self.bins().iter().filter(|b| region_bins[b.id() as usize]).collect()
RECURSIVE query_bins(_, _)
query_bins(bins, region_bins) ==
    IF bins = <<>> THEN <<>>
    ELSE (IF BitSet(region_bins, Head(bins)) THEN <<Head(bins)>> ELSE <<>>)
         \o query_bins(Tail(bins), region_bins)

\* The bounds of a RangeBounds<i64>
Included(v) == [kind |-> "Included", v |-> v]
Excluded(v) == [kind |-> "Excluded", v |-> v]
Unbounded == [kind |-> "Unbounded", v |-> 0]

query_start(interval) ==
    CASE interval.start.kind = "Included" -> interval.start.v
      [] interval.start.kind = "Excluded" -> interval.start.v + 1
      [] OTHER -> MIN_POSITION

query_end(interval, max) ==
    CASE interval.end.kind = "Included" -> interval.end.v
      [] interval.end.kind = "Excluded" -> interval.end.v - 1
      [] OTHER -> max

\* query handing reg2bins the 1-based start instead of start - 1
query_one_based_start(bins, min_shift, depth, interval) ==
    LET start == query_start(interval)
        max == max_position(min_shift, depth)
        end == query_end(interval, max)
        max_bin_id == Bin_max_id(depth)
        region_bins == reg2bins(start, end, min_shift, depth, max_bin_id)
    IN  IF start < MIN_POSITION
        THEN [kind |-> "InvalidStartPosition", a |-> MIN_POSITION, b |-> start, bins |-> <<>>, bits |-> {}]
        ELSE IF end > max
        THEN [kind |-> "InvalidEndPosition", a |-> max, b |-> end, bins |-> <<>>, bits |-> {}]
        ELSE IF region_bins.panic \/ \E i \in 1..Len(bins) : bins[i] >= max_bin_id
        THEN [kind |-> "Panic", a |-> 0, b |-> 0, bins |-> <<>>, bits |-> {}]
        ELSE [kind |-> "Ok", a |-> 0, b |-> 0, bins |-> query_bins(bins, region_bins.ranges), bits |-> {}]

\* ReferenceSequence::query(&self, min_shift, depth, interval), self.bins = bins
query(bins, min_shift, depth, interval) ==
    LET start == query_start(interval)
        max == max_position(min_shift, depth)
        end == query_end(interval, max)
        max_bin_id == Bin_max_id(depth)
        region_bins == reg2bins(start - 1, end, min_shift, depth, max_bin_id)
    IN  IF start < MIN_POSITION
        THEN [kind |-> "InvalidStartPosition", a |-> MIN_POSITION, b |-> start, bins |-> <<>>, bits |-> {}]
        ELSE IF end > max
        THEN [kind |-> "InvalidEndPosition", a |-> max, b |-> end, bins |-> <<>>, bits |-> {}]
        ELSE IF region_bins.panic \/ \E i \in 1..Len(bins) : bins[i] >= max_bin_id
        THEN [kind |-> "Panic", a |-> 0, b |-> 0, bins |-> <<>>, bits |-> {}]
        ELSE [kind |-> "Ok", a |-> 0, b |-> 0, bins |-> query_bins(bins, region_bins.ranges), bits |-> {}]

----------------------------------------------------------------------------
(* 64-bit signed integers.  TLC's integers are 32 bits wide, so an i64 is   *)
(* modelled by its two's complement bits, as four 16-bit limbs              *)
(* <<w3, w2, w1, w0>>, most significant first.                               *)

Limb == 2 ^ 16

\* i64::from(v) for a v of at most 32 bits
I64(v) ==
    <<IF v < 0 THEN Limb - 1 ELSE 0, IF v < 0 THEN Limb - 1 ELSE 0,
      (v \div Limb) % Limb, v % Limb>>

\* a <= b on i64: the limbs compared from the top, the top one as a signed limb
I64Key(a) == <<(a[1] + 32768) % Limb, a[2], a[3], a[4]>>

I64Le(a, b) ==
    LET x == I64Key(a)
        y == I64Key(b)
    IN  \/ x = y
        \/ \E i \in 1..4 : x[i] < y[i] /\ \A j \in 1..(i - 1) : x[j] = y[j]

\* i64::from(u8::MAX), ... , i64::from(i32::MIN)
U8_MAX == <<0, 0, 0, 255>>
U16_MAX == <<0, 0, 0, 65535>>
U32_MAX == <<0, 0, 65535, 65535>>
I8_MIN == <<65535, 65535, 65535, 65408>>
I16_MIN == <<65535, 65535, 65535, 32768>>
I32_MIN == <<65535, 65535, 32768, 0>>

\* the little-endian bytes of the low 8, 16 and 32 bits: `n as u8` / `n as i8`,
\* write_u16::<LittleEndian>(n as u16), write_u32::<LittleEndian>(n as u32)
LE8(n) == <<n[4] % 256>>
LE16(n) == <<n[4] % 256, n[4] \div 256>>
LE32(n) == <<n[4] % 256, n[4] \div 256, n[3] % 256, n[3] \div 256>>

\* the little-endian bytes of a small non-negative count, as a u32
LE32u(v) == LE32(I64(v))

----------------------------------------------------------------------------
(* noodles-bam: writer/record.rs *)

BLOCK_HEADER_SIZE == 32
UNMAPPED_BIN == 4680
NULL_QUALITY_SCORE == 255

\* u8::from(Type::UInt8) ... : the type codes 'C', 'S', 'I', 'c', 's', 'i',
\* and 'A', 'Z', 'B' of the other values modelled
TypeCode ==
    [UInt8 |-> 67, UInt16 |-> 83, UInt32 |-> 73, Int8 |-> 99, Int16 |-> 115, Int32 |-> 105,
     Char |-> 65, String |-> 90, Array |-> 66]

Ok(out) == [err |-> "", out |-> out]
Err(kind, out) == [err |-> kind, out |-> out]

\* write_data_int_value with n < u8::MAX for n <= u8::MAX
write_data_int_value_lt_u8_max(n) ==
    IF I64Le(I64(0), n)
    THEN IF I64Le(n, U8_MAX) /\ n # U8_MAX THEN Ok(<<TypeCode.UInt8>> \o LE8(n))
         ELSE IF I64Le(n, U16_MAX) THEN Ok(<<TypeCode.UInt16>> \o LE16(n))
         ELSE IF I64Le(n, U32_MAX) THEN Ok(<<TypeCode.UInt32>> \o LE32(n))
         ELSE Err("InvalidInput", <<>>)
    ELSE IF I64Le(I8_MIN, n) THEN Ok(<<TypeCode.Int8>> \o LE8(n))
    ELSE IF I64Le(I16_MIN, n) THEN Ok(<<TypeCode.Int16>> \o LE16(n))
    ELSE IF I64Le(I32_MIN, n) THEN Ok(<<TypeCode.Int32>> \o LE32(n))
    ELSE Err("InvalidInput", <<>>)

\* write_data_int_value(writer, n): the bytes written and the result
write_data_int_value(n) ==
    IF I64Le(I64(0), n)
    THEN IF I64Le(n, U8_MAX) THEN Ok(<<TypeCode.UInt8>> \o LE8(n))
         ELSE IF I64Le(n, U16_MAX) THEN Ok(<<TypeCode.UInt16>> \o LE16(n))
         ELSE IF I64Le(n, U32_MAX) THEN Ok(<<TypeCode.UInt32>> \o LE32(n))
         ELSE Err("InvalidInput", <<>>)
    ELSE IF I64Le(I8_MIN, n) THEN Ok(<<TypeCode.Int8>> \o LE8(n))
    ELSE IF I64Le(I16_MIN, n) THEN Ok(<<TypeCode.Int16>> \o LE16(n))
    ELSE IF I64Le(I32_MIN, n) THEN Ok(<<TypeCode.Int32>> \o LE32(n))
    ELSE Err("InvalidInput", <<>>)

\* region_to_bin without its `end -= 1`
region_to_bin_closed_end(start, end) ==
    IF Shr(start, 14) = Shr(end, 14) THEN ((2 ^ 15 - 1) \div 7) + Shr(start, 14)
    ELSE IF Shr(start, 17) = Shr(end, 17) THEN ((2 ^ 12 - 1) \div 7) + Shr(start, 17)
    ELSE IF Shr(start, 20) = Shr(end, 20) THEN ((2 ^ 9 - 1) \div 7) + Shr(start, 20)
    ELSE IF Shr(start, 23) = Shr(end, 23) THEN ((2 ^ 6 - 1) \div 7) + Shr(start, 23)
    ELSE IF Shr(start, 26) = Shr(end, 26) THEN ((2 ^ 3 - 1) \div 7) + Shr(start, 26)
    ELSE 0

\* region_to_bin(start, end): 0-based, [start, end)
region_to_bin(start, end0) ==
    LET end == end0 - 1
    IN  IF Shr(start, 14) = Shr(end, 14) THEN ((2 ^ 15 - 1) \div 7) + Shr(start, 14)
        ELSE IF Shr(start, 17) = Shr(end, 17) THEN ((2 ^ 12 - 1) \div 7) + Shr(start, 17)
        ELSE IF Shr(start, 20) = Shr(end, 20) THEN ((2 ^ 9 - 1) \div 7) + Shr(start, 20)
        ELSE IF Shr(start, 23) = Shr(end, 23) THEN ((2 ^ 6 - 1) \div 7) + Shr(start, 23)
        ELSE IF Shr(start, 26) = Shr(end, 26) THEN ((2 ^ 3 - 1) \div 7) + Shr(start, 26)
        ELSE 0

\* A field written to the output: its name, its values and the width in bytes
\* of each value (the field takes w * Len(v) bytes).
Field(f, v, w) == [f |-> f, v |-> v, w |-> w]

\* the number of bytes of a sequence of fields
RECURSIVE ByteLen(_)
ByteLen(out) == IF out = <<>> THEN 0 ELSE Head(out).w * Len(Head(out).v) + ByteLen(Tail(out))

RECURSIVE SumSeq(_)
SumSeq(s) == IF s = <<>> THEN 0 ELSE Head(s) + SumSeq(Tail(s))

\* A CIGAR is a sequence of <<kind, len>>, kind as `op.kind() as u32`:
\* M = 0, I = 1, D = 2, N = 3, S = 4, H = 5, P = 6, '=' = 7, X = 8.
\* Cigar::reference_len (called mapped_len by the sam record of writer.rs):
\* the sum of the lengths of the operations that consume the reference
reference_len(cigar) ==
    SumSeq([i \in 1..Len(cigar) |-> IF cigar[i][1] \in {0, 2, 3, 7, 8} THEN cigar[i][2] ELSE 0])

\* the absent reference sequence name, and the absent position
NoName == "*"
NoPosition == 0

\* crate::record::reference_sequence_id::UNMAPPED and crate::record::UNMAPPED_POSITION
UNMAPPED == -1
UNMAPPED_POSITION == -1

\* ReferenceSequences::get_index_of(name): the 0-based index of name, -1 for None
get_index_of(refs, name) ==
    IF \E i \in 1..Len(refs) : refs[i] = name
    THEN (CHOOSE i \in 1..Len(refs) : refs[i] = name) - 1
    ELSE -1

\* write_reference_sequence_id: the id written, or the error
write_reference_sequence_id(refs, name) ==
    IF name = NoName THEN Ok(<<UNMAPPED>>)
    ELSE IF get_index_of(refs, name) < 0 THEN Err("InvalidInput", <<>>)
    ELSE Ok(<<get_index_of(refs, name)>>)

\* write_position: position - 1, or UNMAPPED_POSITION
write_position(position) ==
    IF position = NoPosition THEN UNMAPPED_POSITION ELSE position - 1

\* write_cigar: one u32 per operation, len << 4 | kind
write_cigar(cigar) == [i \in 1..Len(cigar) |-> cigar[i][2] * 16 + cigar[i][1]]

\* write_seq: two bases a byte, the last low nibble padded with Base::Eq (0)
write_seq(sequence) ==
    [i \in 1..((Len(sequence) + 1) \div 2) |->
        sequence[2 * i - 1] * 16 + (IF 2 * i <= Len(sequence) THEN sequence[2 * i] ELSE 0)]

\* An auxiliary value is [ty |-> "Int", n |-> limbs], [ty |-> "Char", c |-> byte],
\* [ty |-> "String", s |-> bytes] or [ty |-> "UInt8Array", a |-> bytes]; a data
\* field is [tag |-> <<byte, byte>>, value |-> value].

\* calculate_data_len's match on Value::Int(n): the size added, -1 for the error
data_int_len(n) ==
    IF I64Le(I64(0), n)
    THEN IF I64Le(n, U8_MAX) THEN 1
         ELSE IF I64Le(n, U16_MAX) THEN 2
         ELSE IF I64Le(n, U32_MAX) THEN 4
         ELSE -1
    ELSE IF I64Le(I8_MIN, n) THEN 1
    ELSE IF I64Le(I16_MIN, n) THEN 2
    ELSE IF I64Le(I32_MIN, n) THEN 4
    ELSE -1

\* calculate_data_len, for one field
data_field_len(field) ==
    LET value == field.value
    IN  2 + 1 + (IF value.ty = "UInt8Array" THEN 1 + 4 ELSE 0)
        + (CASE value.ty = "Char" -> 1
             [] value.ty = "Int" -> data_int_len(value.n)
             [] value.ty = "String" -> Len(value.s) + 1
             [] value.ty = "UInt8Array" -> Len(value.a))

\* calculate_data_len(data): [err, len]
calculate_data_len(data) ==
    IF \E i \in 1..Len(data) : data[i].value.ty = "Int" /\ data_int_len(data[i].value.n) < 0
    THEN [err |-> "InvalidInput", len |-> 0]
    ELSE [err |-> "", len |-> SumSeq([i \in 1..Len(data) |-> data_field_len(data[i])])]

\* write_data's loop body for one field: the fields written, and the error
write_data_field(field) ==
    LET value == field.value
        tag == <<Field("tag", field.tag, 1)>>
    IN  CASE value.ty = "Int" ->
                LET r == write_data_int_value(value.n)
                IN  IF r.err # "" THEN Err(r.err, tag)
                    ELSE Ok(tag \o <<Field("val_type", <<Head(r.out)>>, 1),
                                     Field("value", Tail(r.out), 1)>>)
          [] value.ty = "Char" ->
                Ok(tag \o <<Field("val_type", <<TypeCode.Char>>, 1), Field("value", <<value.c>>, 1)>>)
          [] value.ty = "String" ->
                IF \E i \in 1..Len(value.s) : value.s[i] = 0
                THEN Err("InvalidInput", tag \o <<Field("val_type", <<TypeCode.String>>, 1)>>)
                ELSE Ok(tag \o <<Field("val_type", <<TypeCode.String>>, 1),
                                 Field("value", Append(value.s, 0), 1)>>)
          [] value.ty = "UInt8Array" ->
                Ok(tag \o <<Field("val_type", <<TypeCode.Array>>, 1),
                            Field("subtype", <<TypeCode.UInt8>>, 1),
                            Field("count", <<Len(value.a)>>, 4),
                            Field("value", value.a, 1)>>)

\* write_data(writer, data): the fields are written in order up to the first error
RECURSIVE write_data(_)
write_data(data) ==
    IF data = <<>> THEN Ok(<<>>)
    ELSE LET first == write_data_field(Head(data))
         IN  IF first.err # "" THEN first
             ELSE LET rest == write_data(Tail(data))
                  IN  [err |-> rest.err, out |-> first.out \o rest.out]

\* `v as u16`, `v as u8`
AsU16(v) == v % (2 ^ 16)
AsU8(v) == v % (2 ^ 8)

\* write_sam_record's bin (lines 78-87)
sam_record_bin(record) ==
    IF record.position = NoPosition THEN UNMAPPED_BIN
    ELSE LET start == record.position - 1
             end == start + reference_len(record.cigar)
         IN  AsU16(region_to_bin(start, end))

\* the read name bytes have an interior NUL: CString::new fails
HasNul(bytes) == \E i \in 1..Len(bytes) : bytes[i] = 0

\* write_sam_record(writer, reference_sequences, record): [err, out], out being
\* the fields written to the writer, also when an error is returned
write_sam_record(refs, record) ==
    LET name == IF record.name.some THEN record.name.bytes ELSE <<42>>
        read_name == Append(name, 0)
        l_read_name == Len(read_name)
        n_cigar_op == Len(record.cigar)
        l_seq == Len(record.sequence)
        data_len == calculate_data_len(record.data)
        block_size == BLOCK_HEADER_SIZE + l_read_name + (4 * n_cigar_op) + ((l_seq + 1) \div 2)
                      + l_seq + data_len.len
        ref_id == write_reference_sequence_id(refs, record.rname)
        next_ref_id == write_reference_sequence_id(refs, record.mrname)
        out1 == <<Field("block_size", <<block_size>>, 4)>>
        out2 == out1 \o
                <<Field("ref_id", ref_id.out, 4),
                  Field("pos", <<write_position(record.position)>>, 4),
                  Field("l_read_name", <<l_read_name>>, 1),
                  Field("mapq", <<record.mapq>>, 1),
                  Field("bin", <<sam_record_bin(record)>>, 2),
                  Field("n_cigar_op", <<n_cigar_op>>, 2),
                  Field("flag", <<record.flags>>, 2),
                  Field("l_seq", <<l_seq>>, 4)>>
        out3 == out2 \o
                <<Field("next_ref_id", next_ref_id.out, 4),
                  Field("next_pos", <<write_position(record.mpos)>>, 4),
                  Field("tlen", <<record.tlen>>, 4),
                  Field("read_name", read_name, 1),
                  Field("cigar", write_cigar(record.cigar), 4)>>
        out4 == IF record.sequence = <<>> THEN out3
                ELSE out3 \o <<Field("seq", write_seq(record.sequence), 1)>>
        out5 == IF record.sequence = <<>> THEN out4
                ELSE IF Len(record.sequence) = Len(record.quality_scores)
                THEN out4 \o <<Field("qual", record.quality_scores, 1)>>
                ELSE out4 \o <<Field("qual", [i \in 1..l_seq |-> NULL_QUALITY_SCORE], 1)>>
        data == write_data(record.data)
    IN  IF HasNul(name) THEN Err("InvalidInput", <<>>)
        ELSE IF l_read_name > 255 THEN Err("InvalidInput", <<>>)
        ELSE IF n_cigar_op > 65535 THEN Err("InvalidInput", <<>>)
        ELSE IF data_len.err # "" THEN Err("InvalidInput", <<>>)
        ELSE IF ref_id.err # "" THEN Err("InvalidInput", out1)
        ELSE IF next_ref_id.err # "" THEN Err("InvalidInput", out2)
        ELSE IF /\ record.sequence # <<>>
                /\ Len(record.sequence) # Len(record.quality_scores)
                /\ record.quality_scores # <<>>
        THEN Err("InvalidInput", out4)
        ELSE [err |-> data.err, out |-> out5 \o data.out]

----------------------------------------------------------------------------
(* noodles-bam: writer.rs *)

\* writer.rs's own region_to_bin (lines 258-274)
writer_region_to_bin(start, end0) ==
    LET end == end0 - 1
    IN  IF Shr(start, 14) = Shr(end, 14) THEN ((2 ^ 15 - 1) \div 7) + Shr(start, 14)
        ELSE IF Shr(start, 17) = Shr(end, 17) THEN ((2 ^ 12 - 1) \div 7) + Shr(start, 17)
        ELSE IF Shr(start, 20) = Shr(end, 20) THEN ((2 ^ 9 - 1) \div 7) + Shr(start, 20)
        ELSE IF Shr(start, 23) = Shr(end, 23) THEN ((2 ^ 6 - 1) \div 7) + Shr(start, 23)
        ELSE IF Shr(start, 26) = Shr(end, 26) THEN ((2 ^ 3 - 1) \div 7) + Shr(start, 26)
        ELSE 0

\* Writer::write_record's bin (lines 118-124): start is the record's 1-based
\* position and end the CIGAR's mapped length
writer_record_bin(record) ==
    IF record.position = NoPosition THEN 4680
    ELSE LET start == record.position
             end == reference_len(record.cigar)
         IN  AsU16(writer_region_to_bin(start, end))

\* the mate reference sequence name MateReferenceSequenceName::Eq
EqName == "="

\* Writer::write_record(&mut self, reference_sequences, record): [err, out]
writer_write_record(refs, record) ==
    LET c_name == IF record.name.some THEN record.name.bytes ELSE <<>>
        reference_sequence_id == IF record.rname = NoName THEN -1 ELSE get_index_of(refs, record.rname)
        mate_reference_sequence_id ==
            IF record.mrname = EqName THEN reference_sequence_id
            ELSE IF record.mrname = NoName THEN -1
            ELSE get_index_of(refs, record.mrname)
        read_name == Append(c_name, 0)
        l_read_name == AsU8(Len(read_name))
        n_cigar_op == AsU16(Len(record.cigar))
        l_seq == Len(record.sequence)
        block_size == 4 + 4 + 1 + 1 + 2 + 2 + 2 + 4 + 4 + 4 + 4 + l_read_name + (4 * n_cigar_op)
                      + ((l_seq + 1) \div 2) + l_seq
    IN  IF HasNul(c_name) THEN Err("InvalidData", <<>>)
        ELSE IF record.rname # NoName /\ get_index_of(refs, record.rname) < 0
        THEN Err("InvalidData", <<>>)
        ELSE IF record.mrname \notin {NoName, EqName} /\ get_index_of(refs, record.mrname) < 0
        THEN Err("InvalidData", <<>>)
        ELSE Ok(<<Field("block_size", <<block_size>>, 4),
                  Field("ref_id", <<reference_sequence_id>>, 4),
                  Field("pos", <<record.position - 1>>, 4),
                  Field("l_read_name", <<l_read_name>>, 1),
                  Field("mapq", <<record.mapq>>, 1),
                  Field("bin", <<writer_record_bin(record)>>, 2),
                  Field("n_cigar_op", <<n_cigar_op>>, 2),
                  Field("flag", <<record.flags>>, 2),
                  Field("l_seq", <<l_seq>>, 4),
                  Field("next_ref_id", <<mate_reference_sequence_id>>, 4),
                  Field("next_pos", <<record.mpos - 1>>, 4),
                  Field("tlen", <<record.tlen>>, 4),
                  Field("read_name", read_name, 1),
                  Field("cigar", write_cigar(record.cigar), 4),
                  Field("seq", write_seq(record.sequence), 1),
                  Field("qual", record.quality_scores, 1)>>)

----------------------------------------------------------------------------
(* noodles-bgzf: async/writer.rs *)

\* block::MAX_UNCOMPRESSED_DATA_LENGTH: 65280 in the crate, scaled down here
MAX_UNCOMPRESSED_DATA_LENGTH == 3

\* writer::BGZF_EOF, the 28-byte empty block
BGZF_EOF ==
    <<31, 139, 8, 4, 0, 0, 0, 0, 0, 255, 6, 0, 66, 67, 2, 0,
      27, 0, 3, 0, 0, 0, 0, 0, 0, 0, 0, 0>>

\* the capacity of the sink's work queue and the number of deflate workers
QueueCapacity == 2
WorkerCount == 2

Min(a, b) == IF a <= b THEN a ELSE b

RECURSIVE Flatten(_)
Flatten(ss) == IF ss = <<>> THEN <<>> ELSE Head(ss) \o Flatten(Tail(ss))

\* The sink: a bounded work queue of (block_id, payload) items, the blocks the
\* workers hold, the reorder buffer of deflated blocks, and the latched failure
NewSink ==
    [queue |-> <<>>, inflight |-> {}, reorder |-> {},
     next_id |-> 0, next_expected |-> 0, failed |-> FALSE]

\* Sink::poll_ready
sink_poll_ready(s) ==
    IF s.failed THEN "Err"
    ELSE IF Len(s.queue) >= QueueCapacity THEN "Pending"
    ELSE "Ok"

\* Sink::start_send: the payload is stamped with the next block_id and queued
sink_start_send(s, payload) ==
    [s EXCEPT !.queue = Append(@, [block_id |-> s.next_id, payload |-> payload]),
              !.next_id = @ + 1]

\* Sink::poll_close: ready once every queued block has been emitted
sink_poll_close(s) ==
    IF s.failed THEN "Err"
    ELSE IF s.queue # <<>> \/ s.inflight # {} \/ s.reorder # {} THEN "Pending"
    ELSE "Ok"

\* what the underlying writer holds: the frame of a block, a byte of the marker
Frame(payload) == [kind |-> "frame", data |-> payload]
EofByte(b) == [kind |-> "eof", data |-> <<b>>]

\* poll_flush with the buffer split off before the sink is known to be ready
poll_flush_split_first(b, s) ==
    IF b = <<>> THEN [ret |-> "Ok", buf |-> b, sink |-> s, handed |-> <<>>]
    ELSE LET ready == sink_poll_ready(s)
         IN  IF ready # "Ok"
             THEN [ret |-> ready, buf |-> <<>>, sink |-> s, handed |-> <<>>]
             ELSE [ret |-> "Ok", buf |-> <<>>, sink |-> sink_start_send(s, b),
                   handed |-> <<b>>]

\* Writer::poll_flush on buf = b and sink = s
poll_flush(b, s) ==
    IF b = <<>> THEN [ret |-> "Ok", buf |-> b, sink |-> s, handed |-> <<>>]
    ELSE LET ready == sink_poll_ready(s)
         IN  IF ready # "Ok"
             THEN [ret |-> ready, buf |-> b, sink |-> s, handed |-> <<>>]
             ELSE [ret |-> "Ok", buf |-> <<>>, sink |-> sink_start_send(s, b),
                   handed |-> <<b>>]

\* poll_write taking all the caller's bytes, whatever room the buffer has
poll_write_unbounded(b, s, data) ==
    LET f == IF Len(b) >= MAX_UNCOMPRESSED_DATA_LENGTH THEN poll_flush(b, s)
             ELSE [ret |-> "Ok", buf |-> b, sink |-> s, handed |-> <<>>]
    IN  IF f.ret # "Ok"
        THEN [ret |-> f.ret, n |-> 0, buf |-> f.buf, sink |-> f.sink, handed |-> f.handed]
        ELSE [ret |-> "Ok", n |-> Len(data), buf |-> f.buf \o data,
              sink |-> f.sink, handed |-> f.handed]

\* poll_write that never flushes a full buffer
poll_write_no_flush(b, s, data) ==
    LET n == Min(MAX_UNCOMPRESSED_DATA_LENGTH - Len(b), Len(data))
    IN  [ret |-> "Ok", n |-> n, buf |-> b \o SubSeq(data, 1, n), sink |-> s, handed |-> <<>>]

\* Writer::poll_write of the caller's bytes data
poll_write(b, s, data) ==
    LET f == IF Len(b) >= MAX_UNCOMPRESSED_DATA_LENGTH THEN poll_flush(b, s)
             ELSE [ret |-> "Ok", buf |-> b, sink |-> s, handed |-> <<>>]
        n == Min(MAX_UNCOMPRESSED_DATA_LENGTH - Len(f.buf), Len(data))
    IN  IF f.ret # "Ok"
        THEN [ret |-> f.ret, n |-> 0, buf |-> f.buf, sink |-> f.sink, handed |-> f.handed]
        ELSE [ret |-> "Ok", n |-> n, buf |-> f.buf \o SubSeq(data, 1, n),
              sink |-> f.sink, handed |-> f.handed]

\* what one poll_write of the underlying writer answers
InnerOk(n) == [ret |-> "Ok", n |-> n]
InnerPending == [ret |-> "Pending", n |-> 0]
InnerErr == [ret |-> "Err", n |-> 0]

\* the loop of poll_shutdown with eof_buf advanced only by a call that
\* completes: a call that ends early leaves eof_buf = e0, as it found it
RECURSIVE write_eof_restart_loop(_, _, _, _)
write_eof_restart_loop(e0, e, answers, written) ==
    IF e = <<>> THEN [ret |-> "Ok", eof_buf |-> e, written |-> written]
    ELSE IF answers = <<>> \/ Head(answers).ret # "Ok"
    THEN [ret |-> IF answers = <<>> THEN "Pending" ELSE Head(answers).ret,
          eof_buf |-> e0, written |-> written]
    ELSE LET bytes_written == Min(Head(answers).n, Len(e))
             rest == SubSeq(e, bytes_written + 1, Len(e))
         IN  IF bytes_written = 0
             THEN [ret |-> "Err", eof_buf |-> e0, written |-> written]
             ELSE write_eof_restart_loop(e0, rest, Tail(answers),
                                         written \o SubSeq(e, 1, bytes_written))

write_eof_restart(e, answers, written) == write_eof_restart_loop(e, e, answers, written)

\* the loop of poll_shutdown over eof_buf = e: the answers of the underlying
\* writer are taken in turn; written collects the bytes it accepted
RECURSIVE write_eof(_, _, _)
write_eof(e, answers, written) ==
    IF e = <<>> THEN [ret |-> "Ok", eof_buf |-> e, written |-> written]
    ELSE IF answers = <<>> \/ Head(answers).ret # "Ok"
    THEN [ret |-> IF answers = <<>> THEN "Pending" ELSE Head(answers).ret,
          eof_buf |-> e, written |-> written]
    ELSE LET bytes_written == Min(Head(answers).n, Len(e))
             rest == SubSeq(e, bytes_written + 1, Len(e))
         IN  IF bytes_written = 0
             THEN [ret |-> "Err", eof_buf |-> rest, written |-> written]
             ELSE write_eof(rest, Tail(answers), written \o SubSeq(e, 1, bytes_written))

\* poll_shutdown that does not wait for the sink to close
poll_shutdown_no_close(b, e, s, answers) ==
    LET f == poll_flush(b, s)
        w == write_eof(e, answers, <<>>)
    IN  IF f.ret # "Ok"
        THEN [ret |-> f.ret, buf |-> f.buf, eof_buf |-> e, sink |-> f.sink,
              handed |-> f.handed, written |-> <<>>]
        ELSE [ret |-> w.ret, buf |-> f.buf, eof_buf |-> w.eof_buf, sink |-> f.sink,
              handed |-> f.handed, written |-> w.written]

\* Writer::poll_shutdown
poll_shutdown(b, e, s, answers) ==
    LET f == poll_flush(b, s)
        close == sink_poll_close(f.sink)
        w == write_eof(e, answers, <<>>)
    IN  IF f.ret # "Ok"
        THEN [ret |-> f.ret, buf |-> f.buf, eof_buf |-> e, sink |-> f.sink,
              handed |-> f.handed, written |-> <<>>]
        ELSE IF close # "Ok"
        THEN [ret |-> close, buf |-> f.buf, eof_buf |-> e, sink |-> f.sink,
              handed |-> f.handed, written |-> <<>>]
        ELSE [ret |-> w.ret, buf |-> f.buf, eof_buf |-> w.eof_buf, sink |-> f.sink,
              handed |-> f.handed, written |-> w.written]

----------------------------------------------------------------------------
(* SpecCsi: a reference sequence is constructed, then queried *)

\* the most bins a modelled reference sequence stores
MaxBins == 2

\* the (min_shift, depth) pairs the calls are made with: BAM's fixed scheme
\* and the scheme of test_reg2bins
CsiParams == {<<14, 5>>, <<4, 2>>}

\* record intervals [s, e), 0-based, that an index files under region_to_bin(s, e)
RecPos == {0, 1, 16383, 16384, 16385, 131072, 536870911, 536870912}

RecIntervals == {r \in RecPos \X RecPos : r[1] < r[2]}

\* the bin ids a stored bin may have: those of the filed records, and ids
\* around Bin::max_id(5), which ReferenceSequence::new accepts as well
BinIds == {region_to_bin(r[1], r[2]) : r \in RecIntervals} \cup {9, 72, 73, 37449, 37450}

\* the values a query bound is given
StartVals == {-1, 0, 1, 2, 16, 1023, 16384, 16385, 536870911, 536870912}

EndVals == {-1, 0, 1, 2, 16, 1023, 1024, 16384, 16385, 536870911, 536870912, 2147483647}

Intervals ==
    {[start |-> s, end |-> e] :
        s \in {Included(v) : v \in StartVals} \cup {Excluded(v) : v \in StartVals} \cup {Unbounded},
        e \in {Included(v) : v \in EndVals} \cup {Excluded(v) : v \in EndVals} \cup {Unbounded}}

\* the arguments reg2bins is called with: every interval of a small scheme,
\* and the bin boundaries of the scheme of test_reg2bins
Reg2binsPos == {0, 1, 8, 13, 15, 16, 17, 35, 48, 63, 64, 67, 127, 128, 143, 1023, 1024, 1025}

Reg2binsArgs ==
    {[beg |-> b, end |-> e, min_shift |-> 4, depth |-> 2] : b \in Reg2binsPos, e \in Reg2binsPos}
    \cup {[beg |-> b, end |-> e, min_shift |-> 1, depth |-> 1] : b \in 0..17, e \in 0..17}

NoCall == [fn |-> "none"]

NoResult == [kind |-> "none", a |-> 0, b |-> 0, bins |-> <<>>, bits |-> {}]

\* the parts that a specification does not run
IdleCsi ==
    /\ csiPc = "idle"
    /\ refBins = <<>>
    /\ csiCall = NoCall
    /\ csiResult = NoResult

IdleBam ==
    /\ bamPc = "idle"
    /\ bamCall = NoCall
    /\ bamResult = Ok(<<>>)

\* Writer::new(inner): also the writer of the specifications that do not run it
NewWriter ==
    /\ buf = <<>>
    /\ eof_buf = BGZF_EOF
    /\ sink = NewSink
    /\ inner = <<>>
    /\ last = [op |-> "new", ret |-> "Ok", n |-> 0, len |-> 0]
    /\ accepted = <<>>
    /\ sent = <<>>
    /\ shut = [called |-> FALSE, done |-> FALSE, again |-> FALSE, partial |-> FALSE]

\* no ReadGroup has been made
NoReadGroup == [made |-> FALSE]

IdleReadGroup ==
    /\ readGroup = NoReadGroup
    /\ rgLast = [op |-> "none"]

IdleInfo ==
    /\ infoPc = "idle"
    /\ infoCall = NoCall
    /\ infoResult = [kind |-> "none"]

\* build has not been called
NotBuilt == [built |-> FALSE]

\* Builder::default(): no key seen
IdleBuilder ==
    /\ builderKeys = {}
    /\ updated = <<>>
    /\ built = NotBuilt

IdleCram ==
    /\ cramPc = "idle"
    /\ cramCall = NoCall
    /\ cramResult = [kind |-> "none"]

\* ReferenceSequence::new(bins, metadata): any list of bins with distinct ids
InitCsi ==
    /\ csiPc = "ready"
    /\ refBins \in {s \in UNION {[1..n -> BinIds] : n \in 0..MaxBins} :
                        \A i, j \in 1..Len(s) : i # j => s[i] # s[j]}
    /\ csiCall = NoCall
    /\ csiResult = NoResult
    /\ IdleBam
    /\ NewWriter
    /\ IdleReadGroup
    /\ IdleInfo
    /\ IdleBuilder
    /\ IdleCram

\* a call of ReferenceSequence::query
Query ==
    /\ csiPc = "ready"
    /\ \E p \in CsiParams, interval \in Intervals :
          /\ csiCall' = [fn |-> "query", min_shift |-> p[1], depth |-> p[2], interval |-> interval]
          /\ csiResult' = query(refBins, p[1], p[2], interval)
    /\ csiPc' = "done"
    /\ UNCHANGED refBins
    /\ UNCHANGED <<bamVars, bgzfVars, rgVars, infoVars, builderVars, cramVars>>

\* a call of reg2bins on a cleared bit vector of Bin::max_id(depth) bits
Reg2bins ==
    /\ csiPc = "ready"
    /\ refBins = <<>>
    /\ \E c \in Reg2binsArgs :
          LET r == reg2bins(c.beg, c.end, c.min_shift, c.depth, Bin_max_id(c.depth))
          IN  /\ csiCall' = [fn |-> "reg2bins", min_shift |-> c.min_shift, depth |-> c.depth,
                              beg |-> c.beg, end |-> c.end]
              /\ csiResult' = [kind |-> IF r.panic THEN "Panic" ELSE "Ok", a |-> 0, b |-> 0,
                                bins |-> <<>>, bits |-> Bits(r.ranges)]
    /\ csiPc' = "done"
    /\ UNCHANGED refBins
    /\ UNCHANGED <<bamVars, bgzfVars, rgVars, infoVars, builderVars, cramVars>>

NextCsi == Query \/ Reg2bins

SpecCsi == InitCsi /\ [][NextCsi]_vars

----------------------------------------------------------------------------
(* SpecBam: one call of a function of the BAM record writers *)

\* the limbs the integers given to write_data_int_value are made of
LimbVals == {0, 1, 255, 256, 32767, 32768, 65407, 65408, 65535}

IntArgs == LimbVals \X LimbVals \X LimbVals \X LimbVals

\* the coordinates region_to_bin is called with: -1, and the bin boundaries of
\* each level up to 2^29 and past it
BinPos ==
    {-1, 0, 7, 13, 16383, 16384, 16385, 131071, 131072, 1048575, 1048576, 8388607, 8388608,
     63245985, 63255986, 67108863, 67108864, 536870911, 536870912, 536870913, 1073741824}

\* the reference sequence dictionary of the header
RefNames == <<"sq0", "sq1">>

RecNames ==
    {[some |-> FALSE, bytes |-> <<>>], [some |-> TRUE, bytes |-> <<114, 49>>],
     [some |-> TRUE, bytes |-> <<114, 0, 49>>],
     [some |-> TRUE, bytes |-> [i \in 1..255 |-> 114]]}

RecPositions == {NoPosition, 1, 16384, 16385, 536870912}

RecCigars == {<<>>, <<<<0, 1>>>>, <<<<4, 2>>, <<0, 16384>>, <<2, 3>>, <<1, 5>>>>}

\* <<sequence, quality scores>>: base codes 1 = A, 2 = C, 4 = G
RecSeqQual ==
    {<<<<>>, <<>>>>, <<<<1, 2, 4>>, <<30, 31, 32>>>>, <<<<1, 2, 4>>, <<>>>>,
     <<<<1, 2, 4>>, <<30>>>>, <<<<>>, <<30>>>>}

\* the tag NH, and the data of a record
TagNH == <<78, 72>>

RecData ==
    {<<>>,
     <<[tag |-> TagNH, value |-> [ty |-> "Int", n |-> I64(256)]]>>,
     <<[tag |-> TagNH, value |-> [ty |-> "Int", n |-> <<0, 1, 0, 0>>]]>>,
     <<[tag |-> TagNH, value |-> [ty |-> "Char", c |-> 65]],
       [tag |-> TagNH, value |-> [ty |-> "String", s |-> <<110, 0, 100>>]]>>,
     <<[tag |-> TagNH, value |-> [ty |-> "String", s |-> <<110, 100>>]],
       [tag |-> TagNH, value |-> [ty |-> "UInt8Array", a |-> <<8, 13>>]]>>}

BamRecord(n, rn, pos, c, sq, mrn, mpos, d) ==
    [name |-> n, rname |-> rn, position |-> pos, mapq |-> 255, flags |-> 4, cigar |-> c,
     sequence |-> sq[1], quality_scores |-> sq[2], mrname |-> mrn, mpos |-> mpos, tlen |-> 0,
     data |-> d]

\* the call is chosen: a function and its arguments
InitBam ==
    /\ bamPc = "ready"
    /\ \/ \E n \in IntArgs : bamCall = [fn |-> "write_data_int_value", n |-> n]
       \/ \E s \in BinPos, e \in BinPos : bamCall = [fn |-> "region_to_bin", start |-> s, end |-> e]
       \/ \E n \in RecNames, rn \in {NoName, "sq0", "sq1", "sq2"}, pos \in RecPositions,
             c \in RecCigars, sq \in RecSeqQual, mrn \in {NoName, "sq1", "sq2"},
             mpos \in {NoPosition, 8}, d \in RecData :
               bamCall = [fn |-> "write_sam_record",
                          record |-> BamRecord(n, rn, pos, c, sq, mrn, mpos, d)]
       \/ \E n \in RecNames, rn \in {NoName, "sq0", "sq1", "sq2"}, pos \in RecPositions,
             c \in RecCigars, sq \in RecSeqQual, mrn \in {NoName, "sq1", "sq2", EqName},
             mpos \in {NoPosition, 8} :
               bamCall = [fn |-> "write_record",
                          record |-> BamRecord(n, rn, pos, c, sq, mrn, mpos, <<>>)]
    /\ bamResult = Ok(<<>>)
    /\ IdleCsi
    /\ NewWriter
    /\ IdleReadGroup
    /\ IdleInfo
    /\ IdleBuilder
    /\ IdleCram

WriteDataIntValue ==
    /\ bamPc = "ready"
    /\ bamCall.fn = "write_data_int_value"
    /\ bamResult' = write_data_int_value(bamCall.n)
    /\ bamPc' = "done"
    /\ UNCHANGED bamCall
    /\ UNCHANGED <<csiVars, bgzfVars, rgVars, infoVars, builderVars, cramVars>>

RegionToBin ==
    /\ bamPc = "ready"
    /\ bamCall.fn = "region_to_bin"
    /\ bamResult' = Ok(<<region_to_bin(bamCall.start, bamCall.end)>>)
    /\ bamPc' = "done"
    /\ UNCHANGED bamCall
    /\ UNCHANGED <<csiVars, bgzfVars, rgVars, infoVars, builderVars, cramVars>>

WriteSamRecord ==
    /\ bamPc = "ready"
    /\ bamCall.fn = "write_sam_record"
    /\ bamResult' = write_sam_record(RefNames, bamCall.record)
    /\ bamPc' = "done"
    /\ UNCHANGED bamCall
    /\ UNCHANGED <<csiVars, bgzfVars, rgVars, infoVars, builderVars, cramVars>>

WriterWriteRecord ==
    /\ bamPc = "ready"
    /\ bamCall.fn = "write_record"
    /\ bamResult' = writer_write_record(RefNames, bamCall.record)
    /\ bamPc' = "done"
    /\ UNCHANGED bamCall
    /\ UNCHANGED <<csiVars, bgzfVars, rgVars, infoVars, builderVars, cramVars>>

NextBam ==
    WriteDataIntValue \/ RegionToBin \/ WriteSamRecord \/ WriterWriteRecord

SpecBam == InitBam /\ [][NextBam]_vars

----------------------------------------------------------------------------
(* Spec: a caller drives the async BGZF writer while the sink's workers run *)

\* the caller accepts at most this many bytes in all, at most MaxWriteLen a call
MaxAccepted == 5
MaxWriteLen == 4

\* the underlying writer accepts at most this many marker writes in one poll
MaxInnerWrites == 1

\* the sizes the underlying writer may accept of the marker
InnerSizes == {1, 28}

\* the answers of the underlying writer during one poll_shutdown: some
\* accepted writes, then Pending, an error or Ok(0)
InnerAnswers ==
    {sizes \o <<final>> :
        sizes \in UNION {[1..k -> {InnerOk(n) : n \in InnerSizes}] : k \in 0..MaxInnerWrites},
        final \in {InnerPending, InnerErr, InnerOk(0)}}

\* the caller's stream: the byte at 1-based offset i
StreamByte(i) == i % 256

Init ==
    /\ NewWriter
    /\ IdleCsi
    /\ IdleBam
    /\ IdleReadGroup
    /\ IdleInfo
    /\ IdleBuilder
    /\ IdleCram

\* the caller polls poll_write with the next len bytes of its stream
PollWrite ==
    /\ ~shut.called
    /\ \E len \in 0..MaxWriteLen :
          /\ Len(accepted) + len <= MaxAccepted
          /\ LET data == [i \in 1..len |-> StreamByte(Len(accepted) + i)]
                 r == poll_write(buf, sink, data)
             IN  /\ buf' = r.buf
                 /\ sink' = r.sink
                 /\ sent' = sent \o r.handed
                 /\ accepted' = accepted \o SubSeq(data, 1, r.n)
                 /\ last' = [op |-> "poll_write", ret |-> r.ret, n |-> r.n, len |-> len]
    /\ UNCHANGED <<eof_buf, inner, shut>>
    /\ UNCHANGED <<csiVars, bamVars, rgVars, infoVars, builderVars, cramVars>>

\* the caller polls poll_flush
PollFlush ==
    /\ ~shut.called
    /\ LET r == poll_flush(buf, sink)
       IN  /\ buf' = r.buf
           /\ sink' = r.sink
           /\ sent' = sent \o r.handed
           /\ last' = [op |-> "poll_flush", ret |-> r.ret, n |-> 0, len |-> 0]
    /\ UNCHANGED <<eof_buf, inner, accepted, shut>>
    /\ UNCHANGED <<csiVars, bamVars, rgVars, infoVars, builderVars, cramVars>>

\* the caller polls poll_shutdown; from then on it polls nothing else
PollShutdown ==
    /\ UNCHANGED <<csiVars, bamVars, rgVars, infoVars, builderVars, cramVars>>
    /\ \E answers \in InnerAnswers :
        LET r == poll_shutdown(buf, eof_buf, sink, answers)
        IN  /\ buf' = r.buf
            /\ eof_buf' = r.eof_buf
            /\ sink' = r.sink
            /\ sent' = sent \o r.handed
            /\ inner' = inner \o [i \in 1..Len(r.written) |-> EofByte(r.written[i])]
            /\ last' = [op |-> "poll_shutdown", ret |-> r.ret, n |-> Len(r.written), len |-> 0]
            /\ shut' = [called |-> TRUE,
                        done |-> shut.done \/ r.ret = "Ok",
                        again |-> shut.again \/ shut.done,
                        partial |-> shut.partial
                                      \/ (r.ret = "Pending" /\ r.written # <<>>)]
            /\ UNCHANGED accepted

\* a free worker takes the block at the head of the work queue
WorkerTake ==
    /\ ~sink.failed
    /\ sink.queue # <<>>
    /\ Cardinality(sink.inflight) < WorkerCount
    /\ sink' = [sink EXCEPT !.queue = Tail(@), !.inflight = @ \cup {Head(sink.queue)}]
    /\ UNCHANGED <<buf, eof_buf, inner, last, accepted, sent, shut>>
    /\ UNCHANGED <<csiVars, bamVars, rgVars, infoVars, builderVars, cramVars>>

\* a worker posts its deflated block to the reorder buffer
WorkerFinish ==
    /\ ~sink.failed
    /\ \E b \in sink.inflight :
          sink' = [sink EXCEPT !.inflight = @ \ {b}, !.reorder = @ \cup {b}]
    /\ UNCHANGED <<buf, eof_buf, inner, last, accepted, sent, shut>>
    /\ UNCHANGED <<csiVars, bamVars, rgVars, infoVars, builderVars, cramVars>>

\* a worker fails: the failure is latched
WorkerFail ==
    /\ ~sink.failed
    /\ sink.inflight # {}
    /\ sink' = [sink EXCEPT !.failed = TRUE]
    /\ UNCHANGED <<buf, eof_buf, inner, last, accepted, sent, shut>>
    /\ UNCHANGED <<csiVars, bamVars, rgVars, infoVars, builderVars, cramVars>>

\* the emitter writes the frame of the block with the next expected id
Emit ==
    /\ ~sink.failed
    /\ \E b \in sink.reorder :
          /\ b.block_id = sink.next_expected
          /\ sink' = [sink EXCEPT !.reorder = @ \ {b}, !.next_expected = @ + 1]
          /\ inner' = Append(inner, Frame(b.payload))
    /\ UNCHANGED <<buf, eof_buf, last, accepted, sent, shut>>
    /\ UNCHANGED <<csiVars, bamVars, rgVars, infoVars, builderVars, cramVars>>

Next ==
    PollWrite \/ PollFlush \/ PollShutdown \/ WorkerTake \/ WorkerFinish \/ WorkerFail \/ Emit

Spec == Init /\ [][Next]_vars

----------------------------------------------------------------------------
(* The SAM header read group: noodles-sam/src/header/read_group.rs *)

\* Option<T>
None == <<>>
Some(v) == <<v>>

\* read_group::Tag: the variants the structure handles itself, and Tag::Other(String)
Tag(variant) == [variant |-> variant, s |-> ""]
Other(s) == [variant |-> "Other", s |-> s]

\* the text of the variants of Tag, as Display writes them
TagNames ==
    [Id |-> "ID", Barcode |-> "BC", SequencingCenter |-> "CN", Description |-> "DS",
     ProducedAt |-> "DT", FlowOrder |-> "FO", KeySequence |-> "KS", Library |-> "LB",
     Program |-> "PG", PredictedMedianInsertSize |-> "PI", Platform |-> "PL",
     PlatformModel |-> "PM", PlatformUnit |-> "PU", Sample |-> "SM"]

\* the strings of the model that are two characters long and name no variant
TwoCharacterStrings == {"zn"}

\* <Tag as FromStr>::from_str
Tag_from_str(s) ==
    IF \E variant \in DOMAIN TagNames : TagNames[variant] = s
    THEN [kind |-> "Ok", tag |-> Tag(CHOOSE variant \in DOMAIN TagNames : TagNames[variant] = s)]
    ELSE IF s \in TwoCharacterStrings
    THEN [kind |-> "Ok", tag |-> Other(s)]
    ELSE [kind |-> "Err"]

\* <Tag as Display>::fmt
Tag_fmt(tag) == IF tag.variant = "Other" THEN tag.s ELSE TagNames[tag.variant]

\* the text of the variants of read_group::Platform
PlatformNames ==
    [Capillary |-> "CAPILLARY", Ls454 |-> "LS454", Illumina |-> "ILLUMINA",
     Solid |-> "SOLID", Helicos |-> "HELICOS", IonTorrent |-> "IONTORRENT",
     Ont |-> "ONT", PacBio |-> "PACBIO"]

\* <Platform as FromStr>::from_str
Platform_from_str(s) ==
    IF \E variant \in DOMAIN PlatformNames : PlatformNames[variant] = s
    THEN [kind |-> "Ok",
          platform |-> CHOOSE variant \in DOMAIN PlatformNames : PlatformNames[variant] = s]
    ELSE [kind |-> "Err"]

\* <Platform as Display>::fmt
Platform_fmt(platform) == PlatformNames[platform]

\* the field of ReadGroup that holds the value of a variant of Tag
FieldOf ==
    [Id |-> "id", Barcode |-> "barcode", SequencingCenter |-> "sequencing_center",
     Description |-> "description", ProducedAt |-> "produced_at", FlowOrder |-> "flow_order",
     KeySequence |-> "key_sequence", Library |-> "library", Program |-> "program",
     PredictedMedianInsertSize |-> "predicted_median_insert_size", Platform |-> "platform",
     PlatformModel |-> "platform_model", PlatformUnit |-> "platform_unit", Sample |-> "sample"]

\* HashMap::new and HashMap::insert: a later value replaces the value of its key
HashMap_new == [k \in {} |-> ""]

HashMap_insert(map, key, value) ==
    [k \in DOMAIN map \cup {key} |-> IF k = key THEN value ELSE map[k]]

HashMap_get(map, key) == IF key \in DOMAIN map THEN Some(map[key]) ELSE None

\* ReadGroup::new(id)
ReadGroup_new(id) ==
    [made |-> TRUE, id |-> id, barcode |-> None, sequencing_center |-> None,
     description |-> None, produced_at |-> None, flow_order |-> None, key_sequence |-> None,
     library |-> None, program |-> None, predicted_median_insert_size |-> None,
     platform |-> None, platform_model |-> None, platform_unit |-> None, sample |-> None,
     fields |-> HashMap_new]

\* ReadGroup::fields and ReadGroup::get
ReadGroup_fields(read_group) == read_group.fields

ReadGroup_get(read_group, tag) == HashMap_get(read_group.fields, tag)

\* ReadGroup::insert(tag, value): the tag is not looked at
ReadGroup_insert(read_group, tag, value) ==
    [read_group |-> [read_group EXCEPT !.fields = HashMap_insert(@, tag, value)],
     ret |-> HashMap_get(read_group.fields, tag)]

\* the locals of parse_map before the loop: every field None, no other field
parse_map_locals ==
    [made |-> TRUE, id |-> None, barcode |-> None, sequencing_center |-> None,
     description |-> None, produced_at |-> None, flow_order |-> None, key_sequence |-> None,
     library |-> None, program |-> None, predicted_median_insert_size |-> None,
     platform |-> None, platform_model |-> None, platform_unit |-> None, sample |-> None,
     fields |-> HashMap_new]

\* the loop of parse_map from the i-th raw field on, then the construction of the ReadGroup
RECURSIVE parse_map_loop(_, _, _)
parse_map_loop(raw_fields, i, locals) ==
    IF i > Len(raw_fields)
    THEN IF locals.id = None
         THEN [kind |-> "Err", error |-> "MissingRequiredTag", tag |-> Tag("Id")]
         ELSE [kind |-> "Ok", read_group |-> [locals EXCEPT !.id = locals.id[1]]]
    ELSE LET raw_tag == raw_fields[i][1]
             value == raw_fields[i][2]
             parsed == Tag_from_str(raw_tag)
             tag == parsed.tag
         IN  IF parsed.kind = "Err"
             THEN [kind |-> "Err", error |-> "InvalidTag"]
             ELSE IF tag.variant = "Platform"
             THEN LET platform == Platform_from_str(value)
                  IN  IF platform.kind = "Err"
                      THEN [kind |-> "Err", error |-> "InvalidPlatform"]
                      ELSE parse_map_loop(raw_fields, i + 1,
                               [locals EXCEPT !.platform = Some(platform.platform)])
             ELSE IF tag.variant = "Other"
             THEN parse_map_loop(raw_fields, i + 1,
                      [locals EXCEPT !.fields = HashMap_insert(@, tag, value)])
             ELSE parse_map_loop(raw_fields, i + 1,
                      [locals EXCEPT ![FieldOf[tag.variant]] = Some(value)])

parse_map(raw_fields) == parse_map_loop(raw_fields, 1, parse_map_locals)

\* sam::header::Record: a kind and a value, Value::String or Value::Map
String(s) == [type |-> "String", s |-> s, fields |-> <<>>]
Map(fields) == [type |-> "Map", s |-> "", fields |-> fields]

\* a plausible slip: the kind of the record is not looked at
ReadGroup_try_from_any_kind(record) ==
    IF record.value.type = "Map"
    THEN parse_map(record.value.fields)
    ELSE [kind |-> "Err", error |-> "InvalidRecord"]

\* <ReadGroup as TryFrom<Record>>::try_from
ReadGroup_try_from(record) ==
    IF record.kind = "ReadGroup" /\ record.value.type = "Map"
    THEN parse_map(record.value.fields)
    ELSE [kind |-> "Err", error |-> "InvalidRecord"]

\* the standard fields in the order Display writes them, after the ID
DisplayOrder ==
    <<"Barcode", "SequencingCenter", "Description", "ProducedAt", "FlowOrder", "KeySequence",
      "Library", "Program", "PredictedMedianInsertSize", "Platform", "PlatformModel",
      "PlatformUnit", "Sample">>

\* what Display writes for the standard field of a variant: nothing for None
ReadGroup_fmt_field(read_group, variant) ==
    LET value == read_group[FieldOf[variant]]
    IN  IF value = None THEN <<>>
        ELSE <<[tag |-> TagNames[variant],
                value |-> IF variant = "Platform" THEN Platform_fmt(value[1]) ELSE value[1]]>>

RECURSIVE ReadGroup_fmt_fields(_, _)
ReadGroup_fmt_fields(read_group, i) ==
    IF i > Len(DisplayOrder) THEN <<>>
    ELSE ReadGroup_fmt_field(read_group, DisplayOrder[i]) \o ReadGroup_fmt_fields(read_group, i + 1)

\* <ReadGroup as Display>::fmt: the kind, then the tag:value pairs; iteration lists the
\* keys of fields in the order the HashMap yields them
ReadGroup_fmt(read_group, iteration) ==
    [kind |-> "@RG",
     fields |-> <<[tag |-> Tag_fmt(Tag("Id")), value |-> read_group.id]>>
                  \o ReadGroup_fmt_fields(read_group, 1)
                  \o [i \in 1..Len(iteration) |->
                         [tag |-> Tag_fmt(iteration[i]), value |-> read_group.fields[iteration[i]]]]]

\* the orders in which a HashMap can yield its keys
Iterations(map) ==
    {s \in [1..Cardinality(DOMAIN map) -> DOMAIN map] :
        \A i, j \in 1..Len(s) : i # j => s[i] # s[j]}

----------------------------------------------------------------------------
(* SpecReadGroup: a ReadGroup is made by new or try_from, then fields are inserted *)

MaxRawFields == 2

\* the raw tags and values of the records and calls
RawTags == {"ID", "PG", "PL", "zn", "noodles"}

RawValues == {"rg0", "ILLUMINA"}

RawFields == UNION {[1..n -> RawTags \X RawValues] : n \in 0..MaxRawFields}

RgRecords ==
    {[kind |-> k, value |-> v] :
        k \in {"ReadGroup", "Comment"},
        v \in {Map(fields) : fields \in RawFields} \cup {String("noodles-sam")}}

InsertTags == {Tag("Id"), Tag("Program"), Other("zn")}

InitReadGroup ==
    /\ IdleReadGroup
    /\ IdleCsi
    /\ IdleBam
    /\ NewWriter
    /\ IdleInfo
    /\ IdleBuilder
    /\ IdleCram

RgNew ==
    /\ rgLast.op = "none"
    /\ \E id \in RawValues :
          /\ readGroup' = ReadGroup_new(id)
          /\ rgLast' = [op |-> "new", id |-> id]
    /\ UNCHANGED <<csiVars, bamVars, bgzfVars, infoVars, builderVars, cramVars>>

RgTryFrom ==
    /\ rgLast.op = "none"
    /\ \E record \in RgRecords :
          LET r == ReadGroup_try_from(record)
          IN  /\ readGroup' = IF r.kind = "Ok" THEN r.read_group ELSE readGroup
              /\ rgLast' = [op |-> "try_from", record |-> record, ret |-> r]
    /\ UNCHANGED <<csiVars, bamVars, bgzfVars, infoVars, builderVars, cramVars>>

RgInsert ==
    /\ readGroup.made
    /\ \E tag \in InsertTags, value \in RawValues :
          LET r == ReadGroup_insert(readGroup, tag, value)
          IN  /\ readGroup' = r.read_group
              /\ rgLast' = [op |-> "insert", tag |-> tag, value |-> value, ret |-> r.ret]
    /\ UNCHANGED <<csiVars, bamVars, bgzfVars, infoVars, builderVars, cramVars>>

RgFmt ==
    /\ readGroup.made
    /\ \E iteration \in Iterations(readGroup.fields) :
          rgLast' = [op |-> "fmt", line |-> ReadGroup_fmt(readGroup, iteration)]
    /\ UNCHANGED readGroup
    /\ UNCHANGED <<csiVars, bamVars, bgzfVars, infoVars, builderVars, cramVars>>

NextReadGroup == RgNew \/ RgTryFrom \/ RgInsert \/ RgFmt

SpecReadGroup == InitReadGroup /\ [][NextReadGroup]_vars

----------------------------------------------------------------------------
(* The VCF header INFO record: noodles-vcf/src/header/info.rs *)

\* Result<T, E>
Parsed(v) == [kind |-> "Ok", v |-> v]
ParseError == [kind |-> "Err"]

\* <header::info::Key as FromStr>::from_str: the keys of the fields of an INFO record
info_Key_from_str(s) ==
    IF s \in {"ID", "Number", "Type", "Description"}
    THEN Parsed([ID |-> "Id", Number |-> "Number", Type |-> "Type",
                 Description |-> "Description"][s])
    ELSE ParseError

\* <record::info::field::Key as FromStr>::from_str: a reserved key, another key, or no key
field_Key_from_str(s) ==
    IF s = "NS" THEN Parsed([variant |-> "SamplesWithDataCount"])
    ELSE IF s = "BQ" THEN Parsed([variant |-> "BaseQuality"])
    ELSE IF s = "SVTYPE" THEN Parsed([variant |-> "Other", s |-> s])
    ELSE ParseError

\* <header::Number as FromStr>::from_str
Number_from_str(s) ==
    IF s = "1" THEN Parsed([variant |-> "Count", n |-> 1])
    ELSE IF s = "A" THEN Parsed([variant |-> "A"])
    ELSE IF s = "." THEN Parsed([variant |-> "Unknown"])
    ELSE ParseError

\* <header::info::Type as FromStr>::from_str
Type_from_str(s) ==
    IF s \in {"Integer", "Float", "Flag", "Character", "String"}
    THEN Parsed([variant |-> s])
    ELSE ParseError

InfoErr(error) == [kind |-> "Err", error |-> error, key |-> ""]
MissingField(key) == [kind |-> "Err", error |-> "MissingField", key |-> key]

\* it.collect() into a HashMap, from the i-th field on: a later value replaces an earlier one
RECURSIVE collect(_, _, _)
collect(fields, i, map) ==
    IF i > Len(fields) THEN map
    ELSE collect(fields, i + 1, HashMap_insert(map, fields[i][1], fields[i][2]))

\* a plausible slip: the iterator is collected from the start
parse_struct_collect_all(fields) ==
    IF Len(fields) < 1 \/ info_Key_from_str(fields[1][1]) # Parsed("Id")
    THEN MissingField("Id")
    ELSE IF field_Key_from_str(fields[1][2]).kind = "Err"
    THEN InfoErr("InvalidId")
    ELSE IF Len(fields) < 2
    THEN MissingField("Number")
    ELSE IF info_Key_from_str(fields[2][1]) # Parsed("Number")
    THEN MissingField("Id")
    ELSE IF Number_from_str(fields[2][2]).kind = "Err"
    THEN InfoErr("InvalidNumber")
    ELSE IF Len(fields) < 3 \/ info_Key_from_str(fields[3][1]) # Parsed("Type")
    THEN MissingField("Type")
    ELSE IF Type_from_str(fields[3][2]).kind = "Err"
    THEN InfoErr("InvalidType")
    ELSE IF Len(fields) < 4 \/ info_Key_from_str(fields[4][1]) # Parsed("Description")
    THEN MissingField("Description")
    ELSE [kind |-> "Ok",
          info |-> [id |-> field_Key_from_str(fields[1][2]).v,
                    number |-> Number_from_str(fields[2][2]).v,
                    ty |-> Type_from_str(fields[3][2]).v,
                    description |-> fields[4][2],
                    fields |-> collect(fields, 1, HashMap_new)]]

\* parse_struct: the ID, Number, Type and Description are taken from the iterator in this
\* order, each with its own errors, and what is left is collected
parse_struct(fields) ==
    IF Len(fields) < 1 \/ info_Key_from_str(fields[1][1]) # Parsed("Id")
    THEN MissingField("Id")
    ELSE IF field_Key_from_str(fields[1][2]).kind = "Err"
    THEN InfoErr("InvalidId")
    ELSE IF Len(fields) < 2
    THEN MissingField("Number")
    ELSE IF info_Key_from_str(fields[2][1]) # Parsed("Number")
    THEN MissingField("Id")
    ELSE IF Number_from_str(fields[2][2]).kind = "Err"
    THEN InfoErr("InvalidNumber")
    ELSE IF Len(fields) < 3 \/ info_Key_from_str(fields[3][1]) # Parsed("Type")
    THEN MissingField("Type")
    ELSE IF Type_from_str(fields[3][2]).kind = "Err"
    THEN InfoErr("InvalidType")
    ELSE IF Len(fields) < 4 \/ info_Key_from_str(fields[4][1]) # Parsed("Description")
    THEN MissingField("Description")
    ELSE [kind |-> "Ok",
          info |-> [id |-> field_Key_from_str(fields[1][2]).v,
                    number |-> Number_from_str(fields[2][2]).v,
                    ty |-> Type_from_str(fields[3][2]).v,
                    description |-> fields[4][2],
                    fields |-> collect(fields, 5, HashMap_new)]]

\* vcf::header::Record: a key and a value, Value::String or Value::Struct
Struct(fields) == [type |-> "Struct", s |-> "", fields |-> fields]

\* <Info as TryFrom<Record>>::try_from
Info_try_from(record) ==
    IF record.key = "Info"
    THEN IF record.value.type = "Struct"
         THEN parse_struct(record.value.fields)
         ELSE InfoErr("InvalidRecordValue")
    ELSE InfoErr("InvalidRecordKey")

----------------------------------------------------------------------------
(* SpecInfo: one call of Info::try_from *)

MaxExtraFields == 2

\* the choices for each of the first four fields of a struct, in order
LeadingFields ==
    <<{<<"ID", "NS">>, <<"ID", "SVTYPE">>, <<"ID", "">>, <<"Number", "1">>},
      {<<"Number", "1">>, <<"Number", "A">>, <<"Number", "x">>, <<"Type", "Integer">>},
      {<<"Type", "Integer">>, <<"Type", "x">>, <<"Description", "Number of samples with data">>},
      {<<"Description", "Number of samples with data">>, <<"Source", "dbsnp">>}>>

\* the fields that follow them
ExtraFields == {<<"Source", "dbsnp">>, <<"Source", "1">>, <<"Version", "138">>, <<"ID", "BQ">>}

InfoStructs ==
    {s \in UNION {[1..n -> UNION {LeadingFields[i] : i \in DOMAIN LeadingFields}] :
                     n \in 0..Len(LeadingFields)} :
        \A i \in 1..Len(s) : s[i] \in LeadingFields[i]}

InfoRecords ==
    {[key |-> k, value |-> Struct(lead \o extra)] :
        k \in {"Info", "Filter"},
        lead \in InfoStructs,
        extra \in UNION {[1..n -> ExtraFields] : n \in 0..MaxExtraFields}}
    \cup {[key |-> k, value |-> String("VCFv4.3")] : k \in {"Info", "FileFormat"}}

InitInfo ==
    /\ infoPc = "ready"
    /\ infoCall \in {[fn |-> "try_from", record |-> record] : record \in InfoRecords}
    /\ infoResult = [kind |-> "none"]
    /\ IdleCsi
    /\ IdleBam
    /\ NewWriter
    /\ IdleReadGroup
    /\ IdleBuilder
    /\ IdleCram

InfoTryFrom ==
    /\ infoPc = "ready"
    /\ infoResult' = Info_try_from(infoCall.record)
    /\ infoPc' = "done"
    /\ UNCHANGED infoCall
    /\ UNCHANGED <<csiVars, bamVars, bgzfVars, rgVars, builderVars, cramVars>>

NextInfo == InfoTryFrom

SpecInfo == InitInfo /\ [][NextInfo]_vars

----------------------------------------------------------------------------
(* The CRAM tag encoding map builder:
   noodles-cram/src/data_container/compression_header/tag_encoding_map/builder.rs *)

\* record::tag::Key::new(tag, ty) and record::Tag::new(key, value)
Key_new(tag, ty) == [tag |-> tag, ty |-> ty]

cram_Tag_new(key, value) == [key |-> key, value |-> value]

\* bam::record::data::field::Value::Int8 and Value::String
Value_Int8(n) == [ty |-> "Int8", n |-> n, s |-> ""]

Value_String(s) == [ty |-> "String", n |-> 0, s |-> s]

\* the character of a value type: c, i, Z
TypeChars == [Int8 |-> 99, Int32 |-> 105, String |-> 90]

\* Key::id: the two bytes of the tag and the character of the type, as one i32
Key_id(key) == key.tag[1] * (2 ^ 16) + key.tag[2] * (2 ^ 8) + TypeChars[key.ty]

\* Encoding::External and Encoding::ByteArrayLen
External(block_content_id) == [encoding |-> "External", block_content_id |-> block_content_id]

ByteArrayLen(len_encoding, value_encoding) ==
    [encoding |-> "ByteArrayLen", len_encoding |-> len_encoding,
     value_encoding |-> value_encoding]

\* a plausible slip: only the first tag of the record is looked at
Builder_update_first_tag(keys, record) ==
    IF record.tags = <<>> THEN keys ELSE keys \cup {record.tags[1].key}

\* Builder::update(record): the key of every tag of the record is inserted into keys
RECURSIVE Builder_update_loop(_, _, _)
Builder_update_loop(keys, tags, i) ==
    IF i > Len(tags) THEN keys
    ELSE Builder_update_loop(keys \cup {tags[i].key}, tags, i + 1)

Builder_update(keys, record) == Builder_update_loop(keys, record.tags, 1)

\* Builder::build(): an entry is inserted for every key, in the order the HashSet yields
\* them (iteration)
RECURSIVE Builder_build_loop(_, _, _)
Builder_build_loop(iteration, i, map) ==
    IF i > Len(iteration) THEN map
    ELSE LET id == Key_id(iteration[i])
             len_encoding == External(id)
             value_encoding == External(id)
             encoding == ByteArrayLen(len_encoding, value_encoding)
         IN  Builder_build_loop(iteration, i + 1, HashMap_insert(map, id, encoding))

Builder_build(iteration) == Builder_build_loop(iteration, 1, HashMap_new)

\* the orders in which a HashSet can yield its elements
SetIterations(set) ==
    {s \in [1..Cardinality(set) -> set] : \A i, j \in 1..Len(s) : i # j => s[i] # s[j]}

----------------------------------------------------------------------------
(* SpecTagEncodingMap: updates of a Builder, then build *)

MaxUpdates == 3

\* the keys of the tags: NH as Int8 and as Int32, CO as String
KeyNHc == Key_new(<<78, 72>>, "Int8")
KeyNHi == Key_new(<<78, 72>>, "Int32")
KeyCO == Key_new(<<67, 79>>, "String")

\* Record.tags of the records given to update
CramTagLists ==
    {<<>>,
     <<cram_Tag_new(KeyNHc, Value_Int8(1))>>,
     <<cram_Tag_new(KeyNHi, Value_Int8(1))>>,
     <<cram_Tag_new(KeyCO, Value_String("noodles"))>>,
     <<cram_Tag_new(KeyNHc, Value_Int8(2)), cram_Tag_new(KeyCO, Value_String("noodles"))>>,
     <<cram_Tag_new(KeyCO, Value_String("noodles")), cram_Tag_new(KeyNHc, Value_Int8(1)),
       cram_Tag_new(KeyNHc, Value_Int8(2))>>}

InitTagEncodingMap ==
    /\ IdleBuilder
    /\ IdleCsi
    /\ IdleBam
    /\ NewWriter
    /\ IdleReadGroup
    /\ IdleInfo
    /\ IdleCram

BuilderUpdate ==
    /\ built = NotBuilt
    /\ Len(updated) < MaxUpdates
    /\ \E tags \in CramTagLists :
          LET record == [tags |-> tags]
          IN  /\ builderKeys' = Builder_update(builderKeys, record)
              /\ updated' = Append(updated, record)
    /\ UNCHANGED built
    /\ UNCHANGED <<csiVars, bamVars, bgzfVars, rgVars, infoVars, cramVars>>

BuilderBuild ==
    /\ built = NotBuilt
    /\ \E iteration \in SetIterations(builderKeys) :
          built' = [built |-> TRUE, map |-> Builder_build(iteration)]
    /\ UNCHANGED <<builderKeys, updated>>
    /\ UNCHANGED <<csiVars, bamVars, bgzfVars, rgVars, infoVars, cramVars>>

NextTagEncodingMap == BuilderUpdate \/ BuilderBuild

SpecTagEncodingMap == InitTagEncodingMap /\ [][NextTagEncodingMap]_vars

----------------------------------------------------------------------------
(* The CRAM feature resolver: noodles-cram/src/record/resolve.rs *)

\* sam::record::cigar::Op::new(kind, len), the kind as its CIGAR letter
Op(kind, len) == [kind |-> kind, len |-> len]

\* record::Feature: its variant, its position in the read and, for the variants that have
\* one, the length of its bases or its len
Feature(variant, position, len) == [variant |-> variant, position |-> position, len |-> len]

\* the CIGAR operation of a feature: (kind, len) of lines 98-108; the other variants have none
FeatureOp(feature) ==
    CASE feature.variant = "Substitution" -> <<Op("M", 1)>>
      [] feature.variant = "Insertion" -> <<Op("I", feature.len)>>
      [] feature.variant = "Deletion" -> <<Op("D", feature.len)>>
      [] feature.variant = "InsertBase" -> <<Op("I", 1)>>
      [] feature.variant = "ReferenceSkip" -> <<Op("N", feature.len)>>
      [] feature.variant = "SoftClip" -> <<Op("S", feature.len)>>
      [] feature.variant = "Padding" -> <<Op("P", feature.len)>>
      [] feature.variant = "HardClip" -> <<Op("H", feature.len)>>
      [] OTHER -> <<>>

\* the kinds after which i is advanced (lines 113-118)
AdvancesRead(kind) == kind \in {"M", "I", "S", "=", "X"}

\* the end of resolve_features with the last Match one base short
resolve_features_end_short(ops, i, read_len) ==
    IF i < read_len THEN Append(ops, Op("M", read_len - i)) ELSE ops

\* the end of resolve_features: the Match after the last feature (lines 121-127)
resolve_features_end(ops, i, read_len) ==
    IF i <= read_len THEN Append(ops, Op("M", read_len - i + 1)) ELSE ops

\* the loop of resolve_features from the k-th feature on
RECURSIVE resolve_features_loop(_, _, _, _, _)
resolve_features_loop(features, read_len, k, i, ops) ==
    IF k > Len(features) THEN resolve_features_end(ops, i, read_len)
    ELSE LET feature == features[k]
             gap == feature.position > i
             ops1 == IF gap THEN Append(ops, Op("M", feature.position - i)) ELSE ops
             i1 == IF gap THEN feature.position ELSE i
             op == FeatureOp(feature)
         IN  IF op = <<>>
             THEN resolve_features_loop(features, read_len, k + 1, i1, ops1)
             ELSE resolve_features_loop(features, read_len, k + 1,
                      IF AdvancesRead(op[1].kind) THEN i1 + op[1].len ELSE i1,
                      ops1 \o op)

\* resolve_features(features, read_len)
resolve_features(features, read_len) == resolve_features_loop(features, read_len, 1, 1, <<>>)

----------------------------------------------------------------------------
(* The CRAM data container: noodles-cram/src/data_container.rs *)

\* a block of a container: a compression header, a slice header that gives the number
\* of blocks of its slice, a core data block or an external block
Block(content_type, block_count) == [content_type |-> content_type, block_count |-> block_count]

\* CompressionHeader::try_from(block)
CompressionHeader_try_from(block) ==
    IF block.content_type = "CompressionHeader"
    THEN [kind |-> "Ok"]
    ELSE [kind |-> "Err", error |-> "InvalidData"]

\* Slice::try_from(blocks): the header of the first block, the core data block, and the
\* external blocks that are there, up to block_count - 1 of them
Slice_try_from(blocks) ==
    IF blocks = <<>> \/ blocks[1].content_type # "SliceHeader"
    THEN [kind |-> "Err", error |-> "InvalidData"]
    ELSE IF Len(blocks) < 2
    THEN [kind |-> "Err", error |-> "InvalidData"]
    ELSE [kind |-> "Ok",
          slice |-> [block_count |-> blocks[1].block_count,
                     core_data_block |-> blocks[2],
                     external_blocks |->
                         SubSeq(blocks, 3, Min(Len(blocks), blocks[1].block_count + 1))]]

\* the loop of try_from from the k-th landmark on; start is the 0-based index of the next
\* block. &blocks[start..] panics when start is beyond the end of blocks
RECURSIVE DataContainer_try_from_loop(_, _, _, _, _)
DataContainer_try_from_loop(blocks, slices_len, k, start, slices) ==
    IF k > slices_len THEN [kind |-> "Ok", slices |-> slices]
    ELSE IF start > Len(blocks) THEN [kind |-> "Panic", slices |-> slices]
    ELSE LET r == Slice_try_from(SubSeq(blocks, start + 1, Len(blocks)))
         IN  IF r.kind = "Err" THEN [kind |-> "Err", error |-> r.error, slices |-> slices]
             ELSE LET block_count == r.slice.block_count + 1
                  IN  DataContainer_try_from_loop(blocks, slices_len, k + 1,
                          start + block_count,
                          Append(slices, [slice |-> r.slice, start |-> start]))

\* <DataContainer as TryFrom<Container>>::try_from; each slice is kept with the index of
\* the block it was read at
DataContainer_try_from(container) ==
    IF container.blocks = <<>>
    THEN [kind |-> "Err", error |-> "InvalidData", slices |-> <<>>]
    ELSE IF CompressionHeader_try_from(container.blocks[1]).kind = "Err"
    THEN [kind |-> "Err", error |-> "InvalidData", slices |-> <<>>]
    ELSE DataContainer_try_from_loop(container.blocks, Len(container.landmarks), 1, 1, <<>>)

----------------------------------------------------------------------------
(* SpecCram: one call of resolve_features or of DataContainer::try_from *)

MaxReadLen == 5
MaxBlocks == 4
MaxLandmarks == 2

\* the features of the reads: every variant with an operation, and ReadBase, which has none
Features ==
    {Feature(v, p, 0) : v \in {"Substitution", "InsertBase", "ReadBase"}, p \in 1..MaxReadLen}
    \cup {Feature(v, p, l) : v \in {"Insertion", "SoftClip"}, p \in 1..MaxReadLen, l \in {1, 2}}
    \cup {Feature(v, p, 2) : v \in {"Deletion", "ReferenceSkip", "Padding", "HardClip"},
                             p \in 1..MaxReadLen}

FeatureLists == {<<>>} \cup {<<f>> : f \in Features} \cup {<<f, g>> : f \in Features, g \in Features}

\* the blocks of the containers
Blocks ==
    {Block("CompressionHeader", 0), Block("SliceHeader", 1), Block("SliceHeader", 2),
     Block("CoreData", 0), Block("ExternalData", 0)}

\* Container: the landmarks of its header (one byte offset per slice) and its blocks
Containers ==
    {[landmarks |-> [i \in 1..n |-> i - 1], blocks |-> blocks] :
        n \in 0..MaxLandmarks,
        blocks \in UNION {[1..m -> Blocks] : m \in 0..MaxBlocks}}

InitCram ==
    /\ cramPc = "ready"
    /\ \/ \E features \in FeatureLists, read_len \in 0..MaxReadLen :
             cramCall = [fn |-> "resolve_features", features |-> features, read_len |-> read_len]
       \/ \E container \in Containers :
             cramCall = [fn |-> "try_from", container |-> container]
    /\ cramResult = [kind |-> "none"]
    /\ IdleCsi
    /\ IdleBam
    /\ NewWriter
    /\ IdleReadGroup
    /\ IdleInfo
    /\ IdleBuilder

ResolveFeatures ==
    /\ cramPc = "ready"
    /\ cramCall.fn = "resolve_features"
    /\ cramResult' = [kind |-> "Ok", cigar |-> resolve_features(cramCall.features, cramCall.read_len)]
    /\ cramPc' = "done"
    /\ UNCHANGED cramCall
    /\ UNCHANGED <<csiVars, bamVars, bgzfVars, rgVars, infoVars, builderVars>>

DataContainerTryFrom ==
    /\ cramPc = "ready"
    /\ cramCall.fn = "try_from"
    /\ cramResult' = DataContainer_try_from(cramCall.container)
    /\ cramPc' = "done"
    /\ UNCHANGED cramCall
    /\ UNCHANGED <<csiVars, bamVars, bgzfVars, rgVars, infoVars, builderVars>>

NextCram == ResolveFeatures \/ DataContainerTryFrom

SpecCram == InitCram /\ [][NextCram]_vars

----------------------------------------------------------------------------
(* Properties of the BAM record writers, checked under SpecBam *)

\* the fields of out named f
FieldsNamed(out, f) == {i \in 1..Len(out) : out[i].f = f}

\* the value of the only field of out named f
FieldValue(out, f) == out[CHOOSE i \in FieldsNamed(out, f) : TRUE].v[1]

RecordWritten ==
    /\ bamPc = "done"
    /\ bamCall.fn \in {"write_sam_record", "write_record"}
    /\ FieldsNamed(bamResult.out, "bin") # {}

\* the bin the BAM format asks for: region_to_bin over the 0-based alignment
\* interval of a record with a position, 4680 otherwise
SpecifiedBin(record) ==
    IF record.position = NoPosition THEN 4680
    ELSE region_to_bin(record.position - 1,
                       record.position - 1 + reference_len(record.cigar))

\* C2: whenever a BAM record is written, by write_sam_record or by
\* Writer::write_record, the bin field emitted is
\* region_to_bin(pos - 1, pos - 1 + reference_span(cigar)) when the record has a
\* position pos, and 4680 when it has none.
C2_EmittedBin ==
    RecordWritten => FieldValue(bamResult.out, "bin") = SpecifiedBin(bamCall.record)

\* C2, for write_sam_record alone, on records that end within 2^29
C2_EmittedBinOfSamRecord ==
    (RecordWritten /\ bamCall.fn = "write_sam_record")
        => FieldValue(bamResult.out, "bin") = SpecifiedBin(bamCall.record)

\* The ranges of the table of type codes, as bit patterns of the i64
InRangeC(n) == n[1] = 0 /\ n[2] = 0 /\ n[3] = 0 /\ n[4] <= 255
InRangeS(n) == n[1] = 0 /\ n[2] = 0 /\ n[3] = 0 /\ n[4] >= 256
InRangeI(n) == n[1] = 0 /\ n[2] = 0 /\ n[3] >= 1
InRangeLc(n) == n[1] = 65535 /\ n[2] = 65535 /\ n[3] = 65535 /\ n[4] >= 65536 - 128
InRangeLs(n) == n[1] = 65535 /\ n[2] = 65535 /\ n[3] = 65535 /\ n[4] >= 32768 /\ n[4] < 65536 - 128
InRangeLi(n) ==
    /\ n[1] = 65535 /\ n[2] = 65535 /\ n[3] >= 32768
    /\ ~(n[3] = 65535 /\ n[4] >= 32768)

\* the i64 that little-endian bytes stand for, zero- or sign-extended
LEValue(bytes, signed) ==
    LET n == Len(bytes)
        lo == bytes[1] + (IF n >= 2 THEN 256 * bytes[2] ELSE 0)
        hi == IF n = 4 THEN bytes[3] + 256 * bytes[4] ELSE 0
        neg == signed /\ bytes[n] >= 128
        fill == IF neg THEN 65535 ELSE 0
    IN  <<fill, fill,
          IF n = 4 THEN hi ELSE fill,
          IF n = 1 /\ neg THEN lo + 65280 ELSE lo>>

\* out is the type code followed by n in width little-endian bytes
EncodedAs(out, code, width, signed, n) ==
    /\ Len(out) = 1 + width
    /\ out[1] = code
    /\ \A i \in 2..Len(out) : out[i] \in 0..255
    /\ LEValue(Tail(out), signed) = n

\* C3: for every 64-bit signed n, write_data_int_value emits the narrowest type
\* code followed by the little-endian value of that width: C for 0..=255, S for
\* 256..=65535, I for 65536..=2^32-1, c for -128..=-1, s for -32768..=-129, i for
\* -2^31..=-32769; for any other n it fails with InvalidInput and writes no byte.
C3_NarrowestIntegerType ==
    (bamPc = "done" /\ bamCall.fn = "write_data_int_value") =>
        LET n == bamCall.n
            r == bamResult
        IN  CASE InRangeC(n) -> r.err = "" /\ EncodedAs(r.out, 67, 1, FALSE, n)
              [] InRangeS(n) -> r.err = "" /\ EncodedAs(r.out, 83, 2, FALSE, n)
              [] InRangeI(n) -> r.err = "" /\ EncodedAs(r.out, 73, 4, FALSE, n)
              [] InRangeLc(n) -> r.err = "" /\ EncodedAs(r.out, 99, 1, TRUE, n)
              [] InRangeLs(n) -> r.err = "" /\ EncodedAs(r.out, 115, 2, TRUE, n)
              [] InRangeLi(n) -> r.err = "" /\ EncodedAs(r.out, 105, 4, TRUE, n)
              [] OTHER -> r.err = "InvalidInput" /\ r.out = <<>>

\* C3's cases happen: -32769 is written as i FF 7F FF FF, and 2^32 is refused
C3_Witness ==
    /\ bamPc = "done"
    /\ bamCall.fn = "write_data_int_value"
    /\ \/ bamCall.n = <<65535, 65535, 65535, 32767>> /\ bamResult.out = <<105, 255, 127, 255, 255>>
       \/ bamCall.n = <<0, 1, 0, 0>> /\ bamResult.err = "InvalidInput"

\* the width in bases of a bin of level k of BAM's scheme, and the id of the
\* first bin of level k
BinWidth(k) == 2 ^ (29 - 3 * k)
LevelStart(k) == ((8 ^ k) - 1) \div 7

\* the bin of level k that holds position beg holds all of [beg, end - 1]
LevelHolds(k, beg, end) ==
    LET j == beg \div BinWidth(k)
    IN  j * BinWidth(k) <= beg /\ end - 1 < (j + 1) * BinWidth(k)

\* the id of the deepest bin that holds all of [beg, end - 1]
DeepestBin(beg, end) ==
    LET k == CHOOSE l \in 0..5 :
                 LevelHolds(l, beg, end) /\ \A m \in (l + 1)..5 : ~LevelHolds(m, beg, end)
    IN  LevelStart(k) + beg \div BinWidth(k)

\* C6: for all 0 <= beg < end <= 2^29, region_to_bin(beg, end) is the id of the
\* deepest-level bin (levels 0..5, a level-k bin spanning 2^(29-3k) bases, level
\* k starting at id (8^k - 1)/7) whose range holds every position of
\* [beg, end-1]; and region_to_bin(-1, 0) = 4680, region_to_bin(7, 13) = 4681,
\* region_to_bin(63245985, 63255986) = 8541.
C6_RegionToBinIsDeepestBin ==
    (bamPc = "done" /\ bamCall.fn = "region_to_bin") =>
        LET beg == bamCall.start
            end == bamCall.end
            bin == bamResult.out[1]
        IN  /\ (0 <= beg /\ beg < end /\ end <= 2 ^ 29) => bin = DeepestBin(beg, end)
            /\ (beg = -1 /\ end = 0) => bin = 4680
            /\ (beg = 7 /\ end = 13) => bin = 4681
            /\ (beg = 63245985 /\ end = 63255986) => bin = 8541

\* C6's case happens: an interval that crosses a level-5 boundary is filed at level 4
C6_Witness ==
    /\ bamPc = "done"
    /\ bamCall.fn = "region_to_bin"
    /\ bamCall.start = 16383
    /\ bamCall.end = 16385
    /\ bamResult.out = <<585>>

----------------------------------------------------------------------------
(* Properties of the CSI reference sequence, checked under SpecCsi *)

QueryDone == csiPc = "done" /\ csiCall.fn = "query"

\* the record [s, e), 0-based, overlaps the query [a, b], 1-based and closed
Overlaps(s, e, a, b) == a <= e /\ s + 1 <= b

\* C4: with min_shift = 14 and depth = 5, for every record interval [s, e)
\* (0 <= s < e <= 2^29) filed under bin region_to_bin(s, e) and every valid query
\* interval [a, b] that overlaps the record, the bins that query returns include
\* the record's bin whenever the reference sequence stores a bin with that id.
C4_QueryReturnsBinOfOverlappingRecord ==
    (/\ QueryDone
     /\ csiCall.min_shift = 14 /\ csiCall.depth = 5
     /\ csiCall.interval.start.kind = "Included" /\ csiCall.interval.end.kind = "Included"
     /\ 1 <= csiCall.interval.start.v /\ csiCall.interval.end.v <= 2 ^ 29 - 1
     /\ csiResult.kind # "Panic") =>
        /\ csiResult.kind = "Ok"
        /\ \A r \in RecIntervals :
              (/\ Overlaps(r[1], r[2], csiCall.interval.start.v, csiCall.interval.end.v)
               /\ region_to_bin(r[1], r[2]) \in Range(refBins))
                  => region_to_bin(r[1], r[2]) \in Range(csiResult.bins)

\* C4's case happens: of two stored bins, the query returns the one of the
\* overlapping record [16384, 16385) and not the other
C4_Witness ==
    /\ QueryDone
    /\ csiCall.min_shift = 14 /\ csiCall.depth = 5
    /\ csiCall.interval = [start |-> Included(16385), end |-> Included(16385)]
    /\ refBins = <<4681, 4682>>
    /\ csiResult.kind = "Ok"
    /\ csiResult.bins = <<4682>>

\* C5: query resolves the bounds (included s -> s, excluded s -> s + 1,
\* unbounded start -> 1; included e -> e, excluded e -> e - 1, unbounded end ->
\* max) and returns InvalidStartPosition(1, start) whenever start < 1, otherwise
\* InvalidEndPosition(max, end) whenever end > max, max being
\* 2^(min_shift + 3*depth) - 1 (536870911 for 14 and 5); in every other case it
\* returns Ok.
C5_QueryBoundsAndErrors ==
    QueryDone =>
        LET i == csiCall.interval
            max == 2 ^ (csiCall.min_shift + 3 * csiCall.depth) - 1
            start == IF i.start.kind = "Included" THEN i.start.v
                     ELSE IF i.start.kind = "Excluded" THEN i.start.v + 1 ELSE 1
            end == IF i.end.kind = "Included" THEN i.end.v
                   ELSE IF i.end.kind = "Excluded" THEN i.end.v - 1 ELSE max
        IN  /\ (csiCall.min_shift = 14 /\ csiCall.depth = 5) => max = 536870911
            /\ IF start < 1
               THEN csiResult.kind = "InvalidStartPosition" /\ csiResult.a = 1 /\ csiResult.b = start
               ELSE IF end > max
               THEN csiResult.kind = "InvalidEndPosition" /\ csiResult.a = max /\ csiResult.b = end
               ELSE csiResult.kind = "Ok"

\* C5, on the reference sequences whose stored bin ids are all below Bin::max_id(depth)
C5_QueryBoundsAndErrorsOfValidBins ==
    (QueryDone /\ \A i \in 1..Len(refBins) : refBins[i] < Bin_max_id(csiCall.depth))
        => C5_QueryBoundsAndErrors

\* the level of bin id in a scheme of the given depth
LevelOf(id, depth) == CHOOSE l \in 0..depth : LevelStart(l) <= id /\ id < LevelStart(l + 1)

\* the range of bin id intersects [beg, end)
BinIntersects(id, beg, end, min_shift, depth) ==
    LET l == LevelOf(id, depth)
        width == 2 ^ (min_shift + 3 * (depth - l))
        lo == (id - LevelStart(l)) * width
    IN  lo < end /\ beg < lo + width

\* C7: for 0 <= beg < end <= 2^(min_shift + 3*depth), reg2bins sets exactly the
\* bits of the bins whose range intersects [beg, end) and no other bit; with
\* min_shift 4 and depth 2, [35, 67) gives {0, 1, 11, 12, 13}.
C7_Reg2binsSetsIntersectingBins ==
    (/\ csiPc = "done" /\ csiCall.fn = "reg2bins"
     /\ 0 <= csiCall.beg /\ csiCall.beg < csiCall.end
     /\ csiCall.end <= 2 ^ (csiCall.min_shift + 3 * csiCall.depth)) =>
        /\ csiResult.kind = "Ok"
        /\ csiResult.bits =
              {id \in 0..(Bin_max_id(csiCall.depth) - 1) :
                  BinIntersects(id, csiCall.beg, csiCall.end, csiCall.min_shift, csiCall.depth)}
        /\ (csiCall.min_shift = 4 /\ csiCall.depth = 2 /\ csiCall.beg = 35 /\ csiCall.end = 67)
              => csiResult.bits = {0, 1, 11, 12, 13}

\* C7's case happens: [48, 143) of test_reg2bins
C7_Witness ==
    /\ csiPc = "done" /\ csiCall.fn = "reg2bins"
    /\ csiCall.min_shift = 4 /\ csiCall.depth = 2
    /\ csiCall.beg = 48 /\ csiCall.end = 143
    /\ csiResult.bits = {0, 1, 2, 12, 13, 14, 15, 16, 17}

----------------------------------------------------------------------------
(* Properties of the async BGZF writer, checked under Spec *)

\* the payloads of the frames the underlying writer holds, in order, and the
\* marker bytes it holds, in order
InnerPayloads ==
    LET frames == SelectSeq(inner, LAMBDA x : x.kind = "frame")
    IN  [i \in 1..Len(frames) |-> frames[i].data]

InnerMarker == Flatten([i \in 1..Len(inner) |->
                           IF inner[i].kind = "eof" THEN inner[i].data ELSE <<>>])

\* C1: for any sequence of poll_write and poll_flush calls, the payloads of the
\* blocks handed to the deflate sink, concatenated in hand-off order and
\* followed by the bytes still held in the writer's buffer, equal the
\* concatenation in call order of the prefixes that poll_write reported as
\* accepted: no accepted byte is dropped, duplicated or reordered.
C1_AcceptedBytesKeptInOrder == Flatten(sent) \o buf = accepted

\* C1's case happens: a block has been handed off, and poll_write has just
\* accepted a proper prefix of what it was given into a buffer now full
C1_Witness ==
    /\ Len(sent) >= 1
    /\ last.op = "poll_write" /\ last.ret = "Ok"
    /\ 0 < last.n /\ last.n < last.len
    /\ Len(buf) = MAX_UNCOMPRESSED_DATA_LENGTH

\* C8: after writes followed by a shutdown that completes successfully, the
\* underlying writer holds the block frames of all accepted bytes followed by
\* the 28-byte EOF marker as its final bytes; no data frame is written once the
\* marker bytes have begun.
C8_FramesThenMarker ==
    /\ \A i, j \in 1..Len(inner) :
          (i < j /\ inner[i].kind = "eof") => inner[j].kind = "eof"
    /\ shut.done =>
          LET n == Len(InnerPayloads)
          IN  /\ Flatten(InnerPayloads) = accepted
              /\ Len(inner) = n + 28
              /\ \A i \in 1..28 : inner[n + i] = EofByte(BGZF_EOF[i])

\* C8's case happens: a shutdown has completed after two blocks were written
C8_Witness ==
    /\ shut.done
    /\ last.op = "poll_shutdown" /\ last.ret = "Ok" /\ last.n > 0
    /\ Len(InnerPayloads) >= 2
    /\ Len(accepted) >= MAX_UNCOMPRESSED_DATA_LENGTH + 1

\* C9: when poll_flush returns success, every byte accepted by earlier writes
\* has been compressed and written to the underlying writer: nothing remains in
\* the writer's buffer, in the sink's queue or in in-flight deflate work.
C9_FlushWritesEverything ==
    (last.op = "poll_flush" /\ last.ret = "Ok") =>
        /\ buf = <<>>
        /\ sink.queue = <<>> /\ sink.inflight = {} /\ sink.reorder = {}
        /\ Flatten(InnerPayloads) = accepted

\* what poll_flush does ensure when it returns success: the buffer is empty
C9_FlushEmptiesBuffer ==
    (last.op = "poll_flush" /\ last.ret = "Ok") => buf = <<>> /\ Flatten(sent) = accepted

\* C10: shutting down again after a completed shutdown writes no further byte,
\* and the same holds when poll_shutdown is re-polled after returning Pending or
\* after the inner writer accepted only part of the marker: across all
\* poll_shutdown calls each of the 28 EOF marker bytes is written exactly once,
\* in order.
C10_MarkerWrittenOnce ==
    /\ [](InnerMarker \o eof_buf = BGZF_EOF)
    /\ [][shut.done => inner' = inner]_vars

\* C10's case happens: poll_shutdown returned Pending with part of the marker
\* written, completed on a later poll, and was then polled again
C10_Witness ==
    /\ shut.done /\ shut.again /\ shut.partial
    /\ last.op = "poll_shutdown" /\ last.ret = "Ok" /\ last.n = 0
    /\ InnerMarker = BGZF_EOF

\* the last call on the writer was a poll_write or a poll_flush to which the
\* sink reported its failure
SinkFailureReported ==
    /\ last.op \in {"poll_write", "poll_flush"}
    /\ last.ret = "Err"

\* C11: after the deflate/sink stage has reported a failure, every subsequent
\* poll_write and the next poll_flush return an error rather than success.
C11_FailureSurfaced ==
    [][(SinkFailureReported /\ last' # last /\ last'.op \in {"poll_write", "poll_flush"})
          => last'.ret = "Err"]_vars

\* C11, for poll_flush alone: the flush that follows a reported failure fails
C11_NextFlushFails ==
    [][(SinkFailureReported /\ last' # last /\ last'.op = "poll_flush")
          => last'.ret = "Err"]_vars

----------------------------------------------------------------------------
(* Further properties of the BAM record writers, checked under SpecBam *)

\* a call of one of the two record writers has returned Ok
RecordWrittenOk(fns) ==
    /\ bamPc = "done"
    /\ bamCall.fn \in fns
    /\ bamResult.err = ""

\* the block_size written first counts the bytes written after it
BlockSizeCounts(out) ==
    /\ out # <<>>
    /\ out[1].f = "block_size"
    /\ out[1].v[1] = ByteLen(Tail(out))

\* C12: for every record written successfully by write_sam_record or
\* Writer::write_record, the block_size value written first equals the number
\* of bytes written after it for that record, for every combination of
\* sequence, quality-score and auxiliary-data lengths.
C12_BlockSizeCountsRecord ==
    RecordWrittenOk({"write_sam_record", "write_record"}) => BlockSizeCounts(bamResult.out)

\* C12, for write_sam_record alone
C12_BlockSizeCountsSamRecord ==
    RecordWrittenOk({"write_sam_record"}) => BlockSizeCounts(bamResult.out)

\* the 0-based index of name in the dictionary refs, -1 for an absent name
DictionaryIndex(refs, name) ==
    IF name = NoName THEN -1
    ELSE (CHOOSE i \in 1..Len(refs) : refs[i] = name) - 1

\* the reference name that a mate reference name stands for
MateName(record) == IF record.mrname = EqName THEN record.rname ELSE record.mrname

Unknown(refs, name) == name # NoName /\ name \notin Range(refs)

\* C13: when a record is written, ref_id and next_ref_id are the 0-based index
\* of the record's reference (resp. mate reference) name in the caller-supplied
\* dictionary; an absent name encodes as -1; a name that is not in the
\* dictionary makes the write fail with an InvalidInput error.
C13_ReferenceIdsResolved ==
    (bamPc = "done" /\ bamCall.fn \in {"write_sam_record", "write_record"}) =>
        LET record == bamCall.record
            out == bamResult.out
        IN  /\ (FieldsNamed(out, "ref_id") # {} /\ ~Unknown(RefNames, record.rname))
                  => FieldValue(out, "ref_id") = DictionaryIndex(RefNames, record.rname)
            /\ (FieldsNamed(out, "next_ref_id") # {} /\ ~Unknown(RefNames, MateName(record)))
                  => FieldValue(out, "next_ref_id") = DictionaryIndex(RefNames, MateName(record))
            /\ (Unknown(RefNames, record.rname) \/ Unknown(RefNames, MateName(record)))
                  => bamResult.err = "InvalidInput"

\* C13, for write_sam_record alone
C13_ReferenceIdsResolvedOfSamRecord ==
    (bamPc = "done" /\ bamCall.fn = "write_sam_record") => C13_ReferenceIdsResolved

\* C13 with the kind of the error left open: an unknown name fails the write
C13_UnknownNameFails ==
    (bamPc = "done" /\ bamCall.fn \in {"write_sam_record", "write_record"}) =>
        LET record == bamCall.record
        IN  (Unknown(RefNames, record.rname) \/ Unknown(RefNames, MateName(record)))
                => bamResult.err # ""

\* write_sam_record has returned; it got as far as the sequence when the
\* CIGAR is among the fields written
SamRecordDone == bamPc = "done" /\ bamCall.fn = "write_sam_record"

ReachedSequence == FieldsNamed(bamResult.out, "cigar") # {}

\* the bytes written as quality scores
QualWritten ==
    LET out == bamResult.out
    IN  IF FieldsNamed(out, "qual") = {} THEN <<>>
        ELSE out[CHOOSE i \in FieldsNamed(out, "qual") : TRUE].v

\* C14: write_sam_record handles quality scores as follows: absent (empty) with
\* a non-empty sequence, it writes l_seq bytes of 0xFF; non-empty with a length
\* that differs from the sequence length (including when the sequence is
\* empty), it fails; with equal lengths it writes the scores unchanged.
C14_QualityScores ==
    SamRecordDone =>
        LET seq == bamCall.record.sequence
            qual == bamCall.record.quality_scores
        IN  /\ (qual = <<>> /\ seq # <<>> /\ ReachedSequence)
                  => QualWritten = [i \in 1..Len(seq) |-> 255]
            /\ (qual # <<>> /\ Len(qual) # Len(seq)) => bamResult.err # ""
            /\ (Len(qual) = Len(seq) /\ ReachedSequence) => QualWritten = qual

\* C14 without the case of an empty sequence with quality scores
C14_QualityScoresOfNonEmptySequence ==
    (SamRecordDone /\ ~(bamCall.record.sequence = <<>> /\ bamCall.record.quality_scores # <<>>))
        => C14_QualityScores

\* the written fields as a list of values, each with its width in bytes
Units(out) ==
    Flatten([i \in 1..Len(out) |->
                [j \in 1..Len(out[i].v) |-> [v |-> out[i].v[j], w |-> out[i].w]]])

UnitValues(u, from, n) == [i \in 1..n |-> u[from + i - 1].v]

\* a BAM record read back from what was written: the twelve fixed fields, then
\* l_read_name bytes of name, n_cigar_op operations, (l_seq + 1) / 2 bytes of
\* sequence, l_seq quality scores, and the rest as data
decode_record(out) ==
    LET u == Units(out)
        l_read_name == u[4].v
        n_cigar_op == u[7].v
        l_seq == u[9].v
        name_at == 13
        cigar_at == name_at + l_read_name
        seq_at == cigar_at + n_cigar_op
        qual_at == seq_at + ((l_seq + 1) \div 2)
        data_at == qual_at + l_seq
    IN  [block_size |-> u[1].v, ref_id |-> u[2].v, pos |-> u[3].v, mapq |-> u[5].v,
         bin |-> u[6].v, flag |-> u[8].v, next_ref_id |-> u[10].v, next_pos |-> u[11].v,
         tlen |-> u[12].v,
         name |-> UnitValues(u, name_at, l_read_name),
         cigar |-> UnitValues(u, cigar_at, n_cigar_op),
         sequence |-> UnitValues(u, seq_at, (l_seq + 1) \div 2),
         quality_scores |-> UnitValues(u, qual_at, l_seq),
         data |-> UnitValues(u, data_at, Len(u) - data_at + 1)]

\* sam::Record::default(): everything missing
DefaultRecord ==
    BamRecord([some |-> FALSE, bytes |-> <<>>], NoName, NoPosition, <<>>, <<<<>>, <<>>>>,
              NoName, NoPosition, <<>>)

DefaultRecordWritten(fns) ==
    /\ bamPc = "done"
    /\ bamCall.fn \in fns
    /\ bamCall.record = DefaultRecord

\* what the default record reads back as, the name apart
DecodesAsMissing(r) ==
    /\ r.ref_id = -1 /\ r.pos = -1 /\ r.mapq = 255 /\ r.bin = 4680
    /\ r.cigar = <<>> /\ r.sequence = <<>> /\ r.quality_scores = <<>> /\ r.data = <<>>
    /\ r.next_ref_id = -1 /\ r.next_pos = -1 /\ r.tlen = 0

\* C15: encoding the default (all-missing) record with the BAM writer
\* (Writer::write_record, write_sam_record) and decoding it yields name = "\0"
\* (a single NUL byte), ref_id = -1, pos = -1, mapq = 255, bin = 4680, empty
\* cigar, sequence, quality scores and data, mate ref_id = -1, mate pos = -1 and
\* tlen = 0.
C15_DefaultRecordRoundTrip ==
    DefaultRecordWritten({"write_sam_record", "write_record"}) =>
        /\ bamResult.err = ""
        /\ decode_record(bamResult.out).name = <<0>>
        /\ DecodesAsMissing(decode_record(bamResult.out))

\* C15 for Writer::write_record alone, and for both writers with the name left open
C15_DefaultRecordOfWriter ==
    DefaultRecordWritten({"write_record"}) => C15_DefaultRecordRoundTrip

C15_DefaultRecordFields ==
    DefaultRecordWritten({"write_sam_record", "write_record"}) =>
        bamResult.err = "" /\ DecodesAsMissing(decode_record(bamResult.out))

\* C16: if write_sam_record returns an error that does not come from the
\* underlying writer (unknown reference or mate reference name, quality/sequence
\* length mismatch, out-of-range integer tag, string value with an interior NUL,
\* over-long name, CIGAR or sequence), no byte of that record has been written:
\* the output stays at a record boundary.
C16_ErrorWritesNothing ==
    (SamRecordDone /\ bamResult.err # "") => bamResult.out = <<>>

\* C16 for the errors found before block_size is written: a read name with an
\* interior NUL and an out-of-range integer tag
C16_EarlyErrorWritesNothing ==
    (/\ SamRecordDone
     /\ \/ HasNul(bamCall.record.name.bytes)
        \/ calculate_data_len(bamCall.record.data).err # "")
        => bamResult.err = "InvalidInput" /\ bamResult.out = <<>>

----------------------------------------------------------------------------
(* Further properties of the CSI reference sequence, checked under SpecCsi *)

\* the interval of the call is valid for its min_shift and depth
ValidInterval ==
    /\ query_start(csiCall.interval) >= 1
    /\ query_end(csiCall.interval, max_position(csiCall.min_shift, csiCall.depth))
          <= 2 ^ (csiCall.min_shift + 3 * csiCall.depth) - 1

\* bin id lies in reg2bins(start - 1, end, min_shift, depth)
InRegion(id) ==
    LET start == query_start(csiCall.interval)
        end == query_end(csiCall.interval, max_position(csiCall.min_shift, csiCall.depth))
        region == reg2bins(start - 1, end, csiCall.min_shift, csiCall.depth,
                           Bin_max_id(csiCall.depth))
    IN  BitSet(region.ranges, id)

\* C17: for a valid interval, query returns exactly the bins of the reference
\* sequence whose id lies in reg2bins(start-1, end, min_shift, depth), each once
\* and in stored order, provided every stored bin id is below
\* Bin::max_id(depth); it leaves the reference sequence unchanged, and an empty
\* reference sequence yields an empty list.
C17_QueryFiltersStoredBins ==
    /\ []((/\ QueryDone
           /\ ValidInterval
           /\ \A i \in 1..Len(refBins) : refBins[i] < Bin_max_id(csiCall.depth)) =>
              /\ csiResult.kind = "Ok"
              /\ csiResult.bins = SelectSeq(refBins, InRegion)
              /\ (refBins = <<>> => csiResult.bins = <<>>))
    /\ [][refBins' = refBins]_vars

\* C17's case happens: of two stored bins the first alone lies in the region
C17_Witness ==
    /\ QueryDone
    /\ csiCall.min_shift = 4 /\ csiCall.depth = 2
    /\ Len(refBins) = 2
    /\ csiResult.kind = "Ok"
    /\ csiResult.bins = <<refBins[1]>>
    /\ ~InRegion(refBins[2])

----------------------------------------------------------------------------
(* Properties of the SAM header read group, checked under SpecReadGroup *)

\* the tags the structure handles itself: ID, BC, CN, DS, DT, FO, KS, LB, PG, PI, PL, PM,
\* PU and SM
SpeciallyHandled(tag) == tag.variant \in DOMAIN TagNames

\* the tags of a Display line, in the order written
TagsWritten(line) == [i \in 1..Len(line.fields) |-> line.fields[i].tag]

EachTagOnce(line) ==
    \A i, j \in 1..Len(line.fields) : i # j => TagsWritten(line)[i] # TagsWritten(line)[j]

\* C18: after any sequence of new, try_from and insert, fields() holds no tag that the
\* structure handles itself, and the Display line has each tag at most once.
C18_FieldsNotSpeciallyHandled ==
    /\ readGroup.made =>
          \A tag \in DOMAIN ReadGroup_fields(readGroup) : ~SpeciallyHandled(tag)
    /\ rgLast.op = "fmt" => EachTagOnce(rgLast.line)

\* C18, what holds: a ReadGroup as new or try_from returns it has no specially handled
\* tag in fields()
C18_MadeWithoutSpeciallyHandled ==
    (readGroup.made /\ rgLast.op \in {"new", "try_from"}) =>
        \A tag \in DOMAIN ReadGroup_fields(readGroup) : ~SpeciallyHandled(tag)

\* the last call was try_from
TryFromDone == rgLast.op = "try_from"

ReadGroupMap(record) == record.kind = "ReadGroup" /\ record.value.type = "Map"

\* the raw field does not parse: its tag, or the platform of a PL field
TagFails(field) == Tag_from_str(field[1]).kind = "Err"

PlatformFails(field) == field[1] = "PL" /\ Platform_from_str(field[2]).kind = "Err"

AllParse(fields) == \A i \in 1..Len(fields) : ~TagFails(fields[i]) /\ ~PlatformFails(fields[i])

IdFields(fields) == {i \in 1..Len(fields) : fields[i][1] = "ID"}

Returned(error) == rgLast.ret.kind = "Err" /\ rgLast.ret.error = error

\* C19: try_from returns InvalidRecord exactly for a record that is not a read-group map;
\* for a read-group map without ID whose tags and platform parse, MissingRequiredTag(ID);
\* otherwise it succeeds with id() the value of the ID field.
C19_TryFromOutcome ==
    TryFromDone =>
        LET record == rgLast.record
            fields == record.value.fields
        IN  /\ Returned("InvalidRecord") <=> ~ReadGroupMap(record)
            /\ (ReadGroupMap(record) /\ IdFields(fields) = {} /\ AllParse(fields)) =>
                  Returned("MissingRequiredTag") /\ rgLast.ret.tag = Tag("Id")
            /\ (ReadGroupMap(record) /\ ~(IdFields(fields) = {} /\ AllParse(fields))) =>
                  /\ rgLast.ret.kind = "Ok"
                  /\ \E i \in IdFields(fields) : readGroup.id = fields[i][2]

\* the first raw field that does not parse
FirstFailure(fields) ==
    CHOOSE i \in 1..Len(fields) :
        /\ TagFails(fields[i]) \/ PlatformFails(fields[i])
        /\ \A j \in 1..(i - 1) : ~TagFails(fields[j]) /\ ~PlatformFails(fields[j])

Maximum(S) == CHOOSE n \in S : \A m \in S : m <= n

\* C19, amended: InvalidRecord exactly for a record that is not a read-group map; for a
\* read-group map with a field that does not parse, InvalidTag or InvalidPlatform, after
\* the first such field; for one whose fields all parse, MissingRequiredTag(ID) without
\* an ID field and otherwise Ok with id() the value of the last ID field.
C19_TryFromOutcomeWithParseErrors ==
    TryFromDone =>
        LET record == rgLast.record
            fields == record.value.fields
        IN  /\ Returned("InvalidRecord") <=> ~ReadGroupMap(record)
            /\ (ReadGroupMap(record) /\ ~AllParse(fields)) =>
                  IF TagFails(fields[FirstFailure(fields)])
                  THEN Returned("InvalidTag") ELSE Returned("InvalidPlatform")
            /\ (ReadGroupMap(record) /\ AllParse(fields) /\ IdFields(fields) = {}) =>
                  Returned("MissingRequiredTag") /\ rgLast.ret.tag = Tag("Id")
            /\ (ReadGroupMap(record) /\ AllParse(fields) /\ IdFields(fields) # {}) =>
                  /\ rgLast.ret.kind = "Ok"
                  /\ readGroup = rgLast.ret.read_group
                  /\ readGroup.id = fields[Maximum(IdFields(fields))][2]

\* try_from made a ReadGroup of a map with two ID fields of different values
C19_Witness ==
    /\ TryFromDone
    /\ ReadGroupMap(rgLast.record)
    /\ rgLast.ret.kind = "Ok"
    /\ IdFields(rgLast.record.value.fields) = {1, 2}
    /\ rgLast.record.value.fields[1][2] # rgLast.record.value.fields[2][2]
    /\ readGroup.id = rgLast.record.value.fields[2][2]

----------------------------------------------------------------------------
(* Properties of the VCF header INFO record, checked under SpecInfo *)

InfoDone == infoPc = "done" /\ infoCall.fn = "try_from"

InfoStruct(record) == record.key = "Info" /\ record.value.type = "Struct"

\* the first four fields are, in order, ID, Number, Type and Description
LeadingInOrder(fields) ==
    /\ Len(fields) >= 4
    /\ <<fields[1][1], fields[2][1], fields[3][1], fields[4][1]>>
          = <<"ID", "Number", "Type", "Description">>

\* the values of the first four fields, parsed
YieldsParsedValues(info, fields) ==
    /\ Parsed(info.id) = field_Key_from_str(fields[1][2])
    /\ Parsed(info.number) = Number_from_str(fields[2][2])
    /\ Parsed(info.ty) = Type_from_str(fields[3][2])
    /\ info.description = fields[4][2]

\* the fields after the fourth
Following(fields) == {i \in 1..Len(fields) : i > 4}

InfoReturned(error) == infoResult.kind = "Err" /\ infoResult.error = error

\* C20: try_from succeeds for an INFO struct whose first four fields are ID, Number, Type
\* and Description, with those values parsed; every field after the fourth is in fields()
\* under its key; another key gives InvalidRecordKey, a non-struct value InvalidRecordValue.
C20_TryFromRecord ==
    InfoDone =>
        LET record == infoCall.record
            fields == record.value.fields
        IN  /\ (InfoStruct(record) /\ LeadingInOrder(fields)) =>
                  /\ infoResult.kind = "Ok"
                  /\ YieldsParsedValues(infoResult.info, fields)
                  /\ \A i \in Following(fields) :
                        /\ fields[i][1] \in DOMAIN infoResult.info.fields
                        /\ infoResult.info.fields[fields[i][1]] = fields[i][2]
            /\ record.key # "Info" => InfoReturned("InvalidRecordKey")
            /\ (record.key = "Info" /\ record.value.type # "Struct") =>
                  InfoReturned("InvalidRecordValue")

\* the values of the ID, Number and Type fields parse
ValuesParse(fields) ==
    /\ field_Key_from_str(fields[1][2]).kind = "Ok"
    /\ Number_from_str(fields[2][2]).kind = "Ok"
    /\ Type_from_str(fields[3][2]).kind = "Ok"

\* the last field after the fourth with the key
LastOf(fields, key) == Maximum({i \in Following(fields) : fields[i][1] = key})

\* C20, amended: the record succeeds when the values of its ID, Number and Type also
\* parse, and fails with InvalidId, InvalidNumber or InvalidType when one does not;
\* fields() has the keys of the fields after the fourth, each with the value of the last
\* field of that key.
C20_TryFromRecordWithParsedValues ==
    InfoDone =>
        LET record == infoCall.record
            fields == record.value.fields
        IN  /\ (InfoStruct(record) /\ LeadingInOrder(fields) /\ ValuesParse(fields)) =>
                  /\ infoResult.kind = "Ok"
                  /\ YieldsParsedValues(infoResult.info, fields)
                  /\ DOMAIN infoResult.info.fields = {fields[i][1] : i \in Following(fields)}
                  /\ \A key \in DOMAIN infoResult.info.fields :
                        infoResult.info.fields[key] = fields[LastOf(fields, key)][2]
            /\ (InfoStruct(record) /\ LeadingInOrder(fields) /\ ~ValuesParse(fields)) =>
                  \/ InfoReturned("InvalidId")
                  \/ InfoReturned("InvalidNumber")
                  \/ InfoReturned("InvalidType")
            /\ record.key # "Info" => InfoReturned("InvalidRecordKey")
            /\ (record.key = "Info" /\ record.value.type # "Struct") =>
                  InfoReturned("InvalidRecordValue")

\* try_from made an Info of a struct with two fields of one key after the Description
C20_Witness ==
    /\ InfoDone
    /\ InfoStruct(infoCall.record)
    /\ infoResult.kind = "Ok"
    /\ infoResult.info.id = [variant |-> "SamplesWithDataCount"]
    /\ Len(infoCall.record.value.fields) = 6
    /\ infoCall.record.value.fields[5][1] = infoCall.record.value.fields[6][1]
    /\ infoCall.record.value.fields[5][2] # infoCall.record.value.fields[6][2]
    /\ infoResult.info.fields = ("Source" :> infoCall.record.value.fields[6][2])

----------------------------------------------------------------------------
(* More properties of the async BGZF writer, checked under Spec *)

BlockSized(payload) == 1 <= Len(payload) /\ Len(payload) <= MAX_UNCOMPRESSED_DATA_LENGTH

\* C23: the buffer never holds more than MAX_UNCOMPRESSED_DATA_LENGTH bytes, every block
\* handed to the sink has a payload of 1 to MAX_UNCOMPRESSED_DATA_LENGTH bytes, and a
\* poll_flush that finds the buffer empty hands off nothing.
C23_BufferAndBlocksBounded ==
    /\ [](/\ Len(buf) <= MAX_UNCOMPRESSED_DATA_LENGTH
          /\ \A i \in 1..Len(sent) : BlockSized(sent[i]))
    /\ [][(buf = <<>> /\ last' # last /\ last'.op = "poll_flush") => sent' = sent]_vars

\* a full block and a block of one byte have been handed off, and the buffer holds bytes
C23_Witness ==
    /\ buf # <<>>
    /\ \E i, j \in 1..Len(sent) :
          Len(sent[i]) = MAX_UNCOMPRESSED_DATA_LENGTH /\ Len(sent[j]) = 1

----------------------------------------------------------------------------
(* More properties of the BAM record writers, checked under SpecBam *)

\* the record has a position and its 0-based alignment end lies beyond 2^29
EndsBeyondBins(record) ==
    /\ record.position # NoPosition
    /\ record.position - 1 + reference_len(record.cigar) > 2 ^ 29

\* C24: write_sam_record returns an error for every mapped record whose 0-based
\* alignment end lies beyond 2^29, and writes no bin for it.
C24_BeyondBinsRejected ==
    (bamPc = "done" /\ bamCall.fn = "write_sam_record" /\ EndsBeyondBins(bamCall.record)) =>
        /\ bamResult.err # ""
        /\ FieldsNamed(bamResult.out, "bin") = {}

\* the items written in the field of out named f: none when the field is absent
ItemsWritten(out, f) ==
    IF FieldsNamed(out, f) = {} THEN <<>>
    ELSE out[CHOOSE i \in FieldsNamed(out, f) : TRUE].v

\* the length fields count what follows them: the read name bytes with the NUL, the
\* CIGAR words, the bases (two to a byte)
LengthFieldsCount(record, out) ==
    /\ FieldValue(out, "l_read_name") = Len(ItemsWritten(out, "read_name"))
    /\ FieldValue(out, "n_cigar_op") = Len(ItemsWritten(out, "cigar"))
    /\ FieldValue(out, "l_seq") = Len(record.sequence)
    /\ Len(ItemsWritten(out, "seq")) = (Len(record.sequence) + 1) \div 2

\* the name with its NUL, or the CIGAR, is too long for its length field
TooLong(record) ==
    \/ Len(record.name.bytes) + 1 > 255
    \/ Len(record.cigar) > 65535

BothWriters == {"write_sam_record", "write_record"}

\* C26: a record written by either writer has l_read_name, n_cigar_op and l_seq equal to
\* the counts of the items written, and a record whose name or CIGAR is too long for its
\* field is rejected.
C26_LengthFieldsCount ==
    /\ RecordWrittenOk(BothWriters) => LengthFieldsCount(bamCall.record, bamResult.out)
    /\ (bamPc = "done" /\ bamCall.fn \in BothWriters /\ TooLong(bamCall.record)) =>
          bamResult.err # ""

\* C26, what holds: write_sam_record alone
C26_LengthFieldsCountOfSamRecord ==
    /\ RecordWrittenOk({"write_sam_record"}) =>
          LengthFieldsCount(bamCall.record, bamResult.out)
    /\ (bamPc = "done" /\ bamCall.fn = "write_sam_record" /\ TooLong(bamCall.record)) =>
          bamResult.err # ""

----------------------------------------------------------------------------
(* Properties of the CRAM tag encoding map builder, checked under SpecTagEncodingMap *)

\* the distinct tag keys of the records given to update
KeysSeen(records) ==
    {records[i].tags[j].key : <<i, j>> \in
        {<<i, j>> \in (1..Len(records)) \X (1..3) : j <= Len(records[i].tags)}}

\* C21: build returns a map with exactly one entry per distinct tag key of the updated
\* records, under the id of the key, with the value ByteArrayLen(External(id),
\* External(id)); it depends on the set of keys seen only, and is empty without updates.
C21_OneEntryPerKey ==
    built.built =>
        /\ DOMAIN built.map = {Key_id(key) : key \in KeysSeen(updated)}
        /\ Cardinality(DOMAIN built.map) = Cardinality(KeysSeen(updated))
        /\ \A key \in KeysSeen(updated) :
              built.map[Key_id(key)]
                  = ByteArrayLen(External(Key_id(key)), External(Key_id(key)))
        /\ updated = <<>> => built.map = HashMap_new

\* three updates, a key seen in two of them and twice in one record, three keys in all
C21_Witness ==
    /\ built.built
    /\ Len(updated) = 3
    /\ Len(updated[1].tags) = 3
    /\ updated[2] = updated[1]
    /\ KeysSeen(updated) = {KeyNHc, KeyNHi, KeyCO}
    /\ Cardinality(DOMAIN built.map) = 3

----------------------------------------------------------------------------
(* Properties of the CRAM feature resolver and data container, checked under SpecCram *)

ResolveDone == cramPc = "done" /\ cramCall.fn = "resolve_features"

\* the number of read bases a feature stands for
BasesOf(feature) ==
    CASE feature.variant \in {"Substitution", "InsertBase", "ReadBase"} -> 1
      [] feature.variant \in {"Insertion", "SoftClip"} -> feature.len
      [] OTHER -> 0

\* the features are sorted by position, do not overlap and lie within 1..=read_len
SortedWithin(features, read_len) ==
    /\ \A k \in 1..Len(features) :
          /\ 1 <= features[k].position
          /\ features[k].position <= read_len
          /\ features[k].position + BasesOf(features[k]) - 1 <= read_len
    /\ \A k \in 1..(Len(features) - 1) :
          features[k + 1].position >= features[k].position + BasesOf(features[k])

\* the kind of the operation that covers each base of the read, in read order
RECURSIVE Covering(_)
Covering(cigar) ==
    IF cigar = <<>> THEN <<>>
    ELSE (IF Head(cigar).kind \in {"M", "I", "S"}
          THEN [n \in 1..Head(cigar).len |-> Head(cigar).kind]
          ELSE <<>>) \o Covering(Tail(cigar))

\* the kind that covers base p: that of the feature at p, Match in the gaps
KindAt(features, p) ==
    IF \E k \in 1..Len(features) :
          /\ features[k].position <= p
          /\ p < features[k].position + BasesOf(features[k])
          /\ features[k].variant # "ReadBase"
    THEN LET k == CHOOSE k \in 1..Len(features) :
                     /\ features[k].position <= p
                     /\ p < features[k].position + BasesOf(features[k])
                     /\ features[k].variant # "ReadBase"
         IN  FeatureOp(features[k])[1].kind
    ELSE "M"

CoversRead(features, read_len, cigar) ==
    /\ Covering(cigar) = [p \in 1..read_len |-> KindAt(features, p)]
    /\ \A n \in 1..Len(cigar) : cigar[n].kind = "M" => cigar[n].len > 0

\* C22: for features sorted by position, not overlapping and within 1..=read_len, the
\* M, I and S operations of the CIGAR cover the read exactly, with Match operations of
\* positive length in every gap; no features gives a single Match of read_len.
C22_CigarCoversRead ==
    (ResolveDone /\ SortedWithin(cramCall.features, cramCall.read_len)) =>
        /\ CoversRead(cramCall.features, cramCall.read_len, cramResult.cigar)
        /\ cramCall.features = <<>> => cramResult.cigar = <<Op("M", cramCall.read_len)>>

\* C22, amended: no features gives a single Match of read_len for a read_len of at least
\* 1, and the empty CIGAR for a read_len of 0.
C22_CigarCoversReadOfPositiveLength ==
    (ResolveDone /\ SortedWithin(cramCall.features, cramCall.read_len)) =>
        /\ CoversRead(cramCall.features, cramCall.read_len, cramResult.cigar)
        /\ (cramCall.features = <<>> /\ cramCall.read_len >= 1) =>
              cramResult.cigar = <<Op("M", cramCall.read_len)>>
        /\ (cramCall.features = <<>> /\ cramCall.read_len = 0) => cramResult.cigar = <<>>

\* a read of 5 bases with a substitution and a soft clip: a Match before, between and
\* after them
C22_Witness ==
    /\ ResolveDone
    /\ cramCall.read_len = 5
    /\ SortedWithin(cramCall.features, cramCall.read_len)
    /\ Len(cramCall.features) = 2
    /\ cramCall.features[1] = Feature("Substitution", 2, 0)
    /\ cramCall.features[2] = Feature("SoftClip", 4, 1)
    /\ cramResult.cigar = <<Op("M", 1), Op("M", 1), Op("M", 1), Op("S", 1), Op("M", 1)>>

ContainerDone == cramPc = "done" /\ cramCall.fn = "try_from"

\* the index of the block slice k is read at: 1 + the sum over j < k of block_count_j + 1
RECURSIVE SliceStart(_, _)
SliceStart(slices, k) ==
    IF k = 1 THEN 1
    ELSE SliceStart(slices, k - 1) + slices[k - 1].slice.block_count + 1

OneSlicePerLandmark(container, slices) ==
    /\ Len(slices) = Len(container.landmarks)
    /\ \A k \in 1..Len(slices) :
          /\ slices[k].start = SliceStart(slices, k)
          /\ slices[k].start < Len(container.blocks)
          /\ slices[k].slice.block_count = container.blocks[slices[k].start + 1].block_count

\* C27: try_from never reads past the blocks of the container: it does not panic, it
\* returns InvalidData for a container without blocks, and on success it has one slice per
\* landmark, slice k read at block 1 + the sum over j < k of (block_count_j + 1).
C27_NeverReadsPastBlocks ==
    ContainerDone =>
        /\ cramResult.kind # "Panic"
        /\ cramCall.container.blocks = <<>> =>
              cramResult.kind = "Err" /\ cramResult.error = "InvalidData"
        /\ cramResult.kind = "Ok" => OneSlicePerLandmark(cramCall.container, cramResult.slices)

\* C27, what holds: the error without blocks, and the slices of a successful call
C27_SlicesFollowLandmarks ==
    ContainerDone =>
        /\ cramCall.container.blocks = <<>> =>
              cramResult.kind = "Err" /\ cramResult.error = "InvalidData"
        /\ cramResult.kind = "Ok" => OneSlicePerLandmark(cramCall.container, cramResult.slices)

====
